---- MODULE Spec2Model ----
(***************************************************************************)
(* Shift / deal ledger of the WhatsApp CRM bot (crm_bot.services).         *)
(*                                                                         *)
(* The persisted state is the content of the tables users, shifts, deals   *)
(* and cash_transactions.  A row's id is its position in the sequence      *)
(* (autoincrement primary key; no service deletes a row).  Money is        *)
(* counted in whole units of the smallest stored amount (Numeric(12, 2)):  *)
(* a call's amounts are finite decimals of that precision.  A nullable     *)
(* column holds Null or Some(v).                                           *)
(*                                                                         *)
(* Spec        : the service calls of one worker and of the admin, each    *)
(*               run to completion (one transaction after the other).      *)
(* SpecWorkers : the same calls for two workers.                           *)
(* SpecLedger  : the ledger of one worker with soft_delete_deal and the     *)
(*               read-only queries of services/deals.py.                   *)
(* SpecReports : the deals of two workers with soft_delete_deal and the     *)
(*               report aggregates of services/admin.py.                   *)
(* SpecConc    : open_shift calls, each in its own session, whose          *)
(*               transactions may overlap (READ COMMITTED).                *)
(***************************************************************************)
EXTENDS Integers, Sequences, FiniteSets, TLC

VARIABLES users, shifts, deals, txs, clock, last, pre, sess, chat

vars == <<users, shifts, deals, txs, clock, last, pre, sess, chat>>

\* The content of the tables.
db == [users |-> users, shifts |-> shifts, deals |-> deals, txs |-> txs]

(***************************************************************************)
(* Bounds of the model.                                                    *)
(***************************************************************************)
MaxAmount == 1
MaxTxs == 3
MaxShifts == 2
NProcs == 2
MaxLimit == 2
MaxDeals == 2
MaxDay == 1
TicksPerDay == 2
MaxRounds == 1

Amounts == (0 - MaxAmount)..MaxAmount
Procs == 1..NProcs

Null == <<>>
Some(v) == <<v>>
Val(n) == n[1]

Reported == {Null, Some(MaxAmount)}

Methods == {"cash", "bank"}
DealTypes == {"operation", "installment"}
\* The limit argument of a list query.
Limits == 1..MaxLimit
\* The dates a report may be asked for; clock counts instants, TicksPerDay of
\* them to a day.
Days == 0..MaxDay

(***************************************************************************)
(* Users: two active workers and one active admin, as the test fixtures    *)
(* worker_user and admin_user create them.                                 *)
(***************************************************************************)
InitUsers ==
    <<[phone |-> 1, role |-> "worker", is_active |-> TRUE],
      [phone |-> 2, role |-> "worker", is_active |-> TRUE],
      [phone |-> 3, role |-> "admin", is_active |-> TRUE]>>

UserIds == DOMAIN InitUsers
WorkerIds == {u \in UserIds : InitUsers[u].role = "worker"}
\* Phones a caller may type: those of the users and one nobody has.
Phones == WorkerIds \cup {Len(InitUsers) + 1}

(***************************************************************************)
(* The record of the last service call that ended: which operation, for    *)
(* which worker, how it ended (exc = "OK" for a normal return, the         *)
(* exception class otherwise, msg the reason) and what it returned (the id *)
(* of the returned row, or the count close_open_shifts returns).  For a    *)
(* call that returned, args holds its arguments.  pre is the content of    *)
(* the tables when that call started.                                      *)
(***************************************************************************)
NoArgs == [x |-> Null, y |-> Null, method |-> "", by |-> 0]
Args(x, y, method, by) == [x |-> x, y |-> y, method |-> method, by |-> by]

Call(op, worker, exc, msg, ret) ==
    [op |-> op, worker |-> worker, exc |-> exc, msg |-> msg, ret |-> ret,
     args |-> NoArgs]

Returned(op, worker, ret, args) ==
    [op |-> op, worker |-> worker, exc |-> "OK", msg |-> "", ret |-> ret,
     args |-> args]

NoCall == Call("none", 0, "OK", "", 0)

\* An exception leaves the with-block: the session rolls back, nothing is kept.
Raise(call) ==
    /\ last' = call
    /\ pre' = db
    /\ UNCHANGED <<users, shifts, deals, txs, clock, sess>>

Exc(err) ==
    IF err = "" THEN "OK"
    ELSE IF err = "no_shift" THEN "NoActiveShift"
    ELSE IF err = "multiple_rows" THEN "MultipleResultsFound"
    ELSE IF err = "forbidden" THEN "Forbidden"
    ELSE "ValidationError"

\* The module whose exception class is raised for an error: each service
\* module defines its own ValidationError; NoActiveShift is that of shifts.
ExcModule(err) ==
    IF err \in {"not_admin", "worker_not_found"} THEN "admin"
    ELSE IF err \in {"manager_not_found", "phone_format"} THEN "users"
    ELSE IF err \in {"forbidden", "deal_not_found", "amount_zero",
                     "insufficient_limit"} THEN "deals"
    ELSE IF err = "multiple_rows" THEN "sqlalchemy"
    ELSE "shifts"

(***************************************************************************)
(* Queries.                                                                *)
(***************************************************************************)
\* Query.one_or_none(): the row's id, 0 for None, -1 for MultipleResultsFound.
one_or_none(S) ==
    IF S = {} THEN 0
    ELSE IF Cardinality(S) = 1 THEN CHOOSE i \in S : TRUE
    ELSE 0 - 1

OpenShiftIds(worker_id) ==
    {i \in DOMAIN shifts :
        shifts[i].worker_id = worker_id /\ shifts[i].status = "open"}

\* Variant: the status filter of line 55 left out.
get_active_shift_any_status(worker_id) ==
    one_or_none({i \in DOMAIN shifts : shifts[i].worker_id = worker_id})

\* Lines 50-58: the open shift of the worker.
get_active_shift(worker_id) == one_or_none(OpenShiftIds(worker_id))

get_active_user_by_phone(phone) ==
    one_or_none({u \in DOMAIN users :
                    users[u].phone = phone /\ users[u].is_active})

(***************************************************************************)
(* open_shift                                                              *)
(***************************************************************************)
\* Variant: the query looks for a closed shift.
open_shift_existing_closed(worker_id) ==
    one_or_none({i \in DOMAIN shifts : shifts[i].worker_id = worker_id
                                        /\ shifts[i].status = "closed"})

\* Lines 84-91: the worker's open shift, if any.
open_shift_existing(worker_id) == one_or_none(OpenShiftIds(worker_id))

\* Variant: the existing-shift check made before the amount checks.
open_shift_error_existing_first(worker, cash, bank) ==
    IF open_shift_existing(worker) < 0 THEN "multiple_rows"
    ELSE IF open_shift_existing(worker) # 0 THEN "already_open"
    ELSE IF cash < 0 \/ bank < 0 THEN "amounts_negative"
    ELSE IF cash = 0 /\ bank = 0 THEN "amounts_zero"
    ELSE ""

\* Lines 75-93: the checks in the order the code makes them.
open_shift_error(worker, cash, bank) ==
    IF cash < 0 \/ bank < 0 THEN "amounts_negative"
    ELSE IF cash = 0 /\ bank = 0 THEN "amounts_zero"
    ELSE IF open_shift_existing(worker) < 0 THEN "multiple_rows"
    ELSE IF open_shift_existing(worker) # 0 THEN "already_open"
    ELSE ""

\* Variant: the combined balances hold the cash amount only.
NewShift_total_is_cash(worker, cash, bank) ==
    [worker_id |-> worker,
     opening_balance_cash |-> cash,
     opening_balance_bank |-> bank,
     current_balance_cash |-> cash,
     current_balance_bank |-> bank,
     opening_balance |-> cash,
     current_balance |-> cash,
     status |-> "open",
     closed_at |-> Null,
     reported_cash |-> Null,
     reported_bank |-> Null,
     reported_at |-> Null,
     cash_diff |-> Null,
     bank_diff |-> Null]

\* Lines 95-104: the new row.
NewShift(worker, cash, bank) ==
    [worker_id |-> worker,
     opening_balance_cash |-> cash,
     opening_balance_bank |-> bank,
     current_balance_cash |-> cash,
     current_balance_bank |-> bank,
     opening_balance |-> cash + bank,
     current_balance |-> cash + bank,
     status |-> "open",
     closed_at |-> Null,
     reported_cash |-> Null,
     reported_bank |-> Null,
     reported_at |-> Null,
     cash_diff |-> Null,
     bank_diff |-> Null]

\* Variant: the ledger row does not point at its deal.
NewTx_without_deal(worker, shift_id, deal_id, type, amount, created_by) ==
    [worker_id |-> worker, shift_id |-> shift_id, deal_id |-> Null,
     type |-> type, amount_delta |-> amount, created_by |-> created_by]

\* A CashTransaction row (models.CashTransaction).
NewTx(worker, shift_id, deal_id, type, amount, created_by) ==
    [worker_id |-> worker, shift_id |-> shift_id, deal_id |-> deal_id,
     type |-> type, amount_delta |-> amount, created_by |-> created_by]

\* Lines 95-116: the Shift row and its OPENING ledger row.
open_shift_insert(worker, cash, bank) ==
    /\ shifts' = Append(shifts, NewShift(worker, cash, bank))
    /\ txs' = Append(txs, NewTx(worker, Len(shifts) + 1, Null,
                                "OPENING", cash + bank, Null))
    /\ last' = Returned("open_shift", worker, Len(shifts) + 1,
                         Args(Some(cash), Some(bank), "", 0))
    /\ pre' = db
    /\ UNCHANGED <<users, deals, clock>>

open_shift(worker, cash, bank) ==
    LET err == open_shift_error(worker, cash, bank)
    IN  IF err # "" THEN Raise(Call("open_shift", worker, Exc(err), err, 0))
        ELSE open_shift_insert(worker, cash, bank) /\ UNCHANGED sess

(***************************************************************************)
(* create_deal                                                             *)
(***************************************************************************)
\* Variant: the status filter of line 87 left out.
create_deal_shift_any_status(worker_id) ==
    one_or_none({i \in DOMAIN shifts : shifts[i].worker_id = worker_id})

\* Lines 82-90: the worker's open shift.
create_deal_shift(worker_id) == one_or_none(OpenShiftIds(worker_id))

\* Variant: the debit is checked against the combined balance.
target_balance_total(shift, method) == shift.current_balance

\* Lines 94-96: the balance the debit is checked against.
target_balance(shift, method) ==
    IF method = "cash" THEN shift.current_balance_cash
    ELSE shift.current_balance_bank

\* Variant: a debit is refused only on a balance that is already negative.
insufficient_limit_ignores_amount(shift, method, amount) ==
    amount < 0 /\ target_balance(shift, method) < 0

\* Line 97: the debit the balance does not cover.
insufficient_limit(shift, method, amount) ==
    amount < 0 /\ target_balance(shift, method) + amount < 0

\* Variant: the shift looked up before the zero-amount check.
create_deal_error_shift_first(worker, amount, method) ==
    IF create_deal_shift(worker) < 0 THEN "multiple_rows"
    ELSE IF create_deal_shift(worker) = 0 THEN "no_shift"
    ELSE IF amount = 0 THEN "amount_zero"
    ELSE IF insufficient_limit(shifts[create_deal_shift(worker)], method, amount)
         THEN "insufficient_limit"
    ELSE ""

\* Lines 75-98: the checks in the order the code makes them.
create_deal_error(worker, amount, method) ==
    IF amount = 0 THEN "amount_zero"
    ELSE IF create_deal_shift(worker) < 0 THEN "multiple_rows"
    ELSE IF create_deal_shift(worker) = 0 THEN "no_shift"
    ELSE IF insufficient_limit(shifts[create_deal_shift(worker)], method, amount)
         THEN "insufficient_limit"
    ELSE ""

\* Lines 100-109 and the column defaults of models.Deal: created_at is the
\* time of the insert (server_default now()), is_deleted is false.
NewDeal(worker, shift_id, amount, method, deal_type) ==
    [worker_id |-> worker, shift_id |-> shift_id, total_amount |-> amount,
     payment_method |-> method, deal_type |-> deal_type, is_deleted |-> FALSE,
     created_at |-> clock, installment |-> Null]

\* Where sums with more than two decimals occur (the installment sale),
\* money is counted in Tick-ths of a unit; a cent is CentTicks of them.
Tick == 10000
CentTicks == 100

\* A Numeric(12, 2) column (models.py 170-176) keeps two decimals: the
\* database rounds what it is given to the nearest cent, a half away from 0.
numeric_12_2(value) ==
    IF value >= 0
    THEN ((value + CentTicks \div 2) \div CentTicks) * CentTicks
    ELSE 0 - (((0 - value) + CentTicks \div 2) \div CentTicks) * CentTicks

\* Lines 110-117: the installment columns as the table keeps them.
installment_columns(installment_data) ==
    [product_price |-> numeric_12_2(installment_data.product_price),
     markup_percent |-> installment_data.markup_percent,
     markup_amount |-> numeric_12_2(installment_data.markup_amount),
     installment_term_months |-> installment_data.installment_term_months,
     down_payment_amount |-> numeric_12_2(installment_data.down_payment_amount),
     installment_total_amount |->
         numeric_12_2(installment_data.installment_total_amount),
     monthly_payment_amount |->
         numeric_12_2(installment_data.monthly_payment_amount)]

\* Variant: the amount is added to both methods.
apply_delta_both(shift, method, amount) ==
    [shift EXCEPT !.current_balance_cash = @ + amount,
                  !.current_balance_bank = @ + amount,
                  !.current_balance = @ + amount + amount]

\* The balance of the chosen method moves by the amount and the combined
\* balance is recomputed (deals.py 121-125, shifts.py 164-168).
apply_delta(shift, method, amount) ==
    LET cash == IF method = "bank" THEN shift.current_balance_cash
                ELSE shift.current_balance_cash + amount
        bank == IF method = "bank" THEN shift.current_balance_bank + amount
                ELSE shift.current_balance_bank
    IN  [shift EXCEPT !.current_balance_cash = cash,
                      !.current_balance_bank = bank,
                      !.current_balance = cash + bank]

\* create_deal with installment_data (Null for none, a record otherwise).
create_deal_with(worker, amount, method, deal_type, installment_data) ==
    LET err == create_deal_error(worker, amount, method)
        sid == create_deal_shift(worker)
        deal == NewDeal(worker, sid, amount, method, deal_type)
    IN  IF err # "" THEN Raise(Call("create_deal", worker, Exc(err), err, 0))
        ELSE /\ deals' = Append(deals,
                    IF deal_type = "installment" /\ installment_data # Null
                    THEN [deal EXCEPT !.installment =
                             Some(installment_columns(Val(installment_data)))]
                    ELSE deal)
             /\ shifts' = [shifts EXCEPT ![sid] = apply_delta(@, method, amount)]
             /\ txs' = Append(txs, NewTx(worker, sid, Some(Len(deals) + 1),
                                         "DEAL_ISSUED", amount, Null))
             /\ last' = Returned("create_deal", worker, Len(deals) + 1,
                                  Args(Some(amount), Null, method, 0))
             /\ pre' = db
             /\ clock' = clock + 1
             /\ UNCHANGED <<users, sess>>

\* models.py 84-122: the money columns of a Shift row are Numeric(12, 2);
\* what the session flushes is kept rounded to the cent.
shift_columns(shift) ==
    [shift EXCEPT !.opening_balance_cash = numeric_12_2(@),
                  !.opening_balance_bank = numeric_12_2(@),
                  !.opening_balance = numeric_12_2(@),
                  !.current_balance_cash = numeric_12_2(@),
                  !.current_balance_bank = numeric_12_2(@),
                  !.current_balance = numeric_12_2(@)]

\* shifts.py 75-116 with amounts in ticks: the checks are made on the
\* amounts as given, the rows are kept as the columns keep them.
open_shift_numeric(worker, cash, bank) ==
    LET err == open_shift_error(worker, cash, bank)
    IN  IF err # "" THEN Raise(Call("open_shift", worker, Exc(err), err, 0))
        ELSE /\ shifts' = Append(shifts, shift_columns(NewShift(worker, cash, bank)))
             /\ txs' = Append(txs, NewTx(worker, Len(shifts) + 1, Null, "OPENING",
                                         numeric_12_2(cash + bank), Null))
             /\ last' = Returned("open_shift", worker, Len(shifts) + 1,
                                  Args(Some(cash), Some(bank), "", 0))
             /\ pre' = db
             /\ UNCHANGED <<users, deals, clock, sess>>

\* deals.py 75-135 with the amount in ticks: the checks and the sums are
\* made on the amount as given, the rows are kept as the columns keep them.
create_deal_numeric(worker, amount, method) ==
    LET err == create_deal_error(worker, amount, method)
        sid == create_deal_shift(worker)
    IN  IF err # "" THEN Raise(Call("create_deal", worker, Exc(err), err, 0))
        ELSE /\ deals' = Append(deals, NewDeal(worker, sid, numeric_12_2(amount),
                                               method, "operation"))
             /\ shifts' = [shifts EXCEPT
                              ![sid] = shift_columns(apply_delta(@, method, amount))]
             /\ txs' = Append(txs, NewTx(worker, sid, Some(Len(deals) + 1),
                                         "DEAL_ISSUED", numeric_12_2(amount), Null))
             /\ last' = Returned("create_deal", worker, Len(deals) + 1,
                                  Args(Some(amount), Null, method, 0))
             /\ pre' = db
             /\ clock' = clock + 1
             /\ UNCHANGED <<users, sess>>

create_deal(worker, amount, method, deal_type) ==
    LET err == create_deal_error(worker, amount, method)
        sid == create_deal_shift(worker)
    IN  IF err # "" THEN Raise(Call("create_deal", worker, Exc(err), err, 0))
        ELSE /\ deals' = Append(deals, NewDeal(worker, sid, amount, method, deal_type))
             /\ shifts' = [shifts EXCEPT ![sid] = apply_delta(@, method, amount)]
             /\ txs' = Append(txs, NewTx(worker, sid, Some(Len(deals) + 1),
                                         "DEAL_ISSUED", amount, Null))
             /\ last' = Returned("create_deal", worker, Len(deals) + 1,
                                  Args(Some(amount), Null, method, 0))
             /\ pre' = db
             /\ clock' = clock + 1
             /\ UNCHANGED <<users, sess>>

(***************************************************************************)
(* adjust_balance, reached through adjust_worker_balance                   *)
(***************************************************************************)
adjust_balance_error(worker) ==
    IF get_active_shift(worker) < 0 THEN "multiple_rows"
    ELSE IF get_active_shift(worker) = 0 THEN "no_shift"
    ELSE ""

\* Variant: a delta the chosen balance does not cover is refused, as a debit
\* of create_deal is.
adjust_balance_lower_bound(op, worker, delta, method, created_by) ==
    LET err == adjust_balance_error(worker)
        sid == get_active_shift(worker)
    IN  IF err # "" THEN Raise(Call(op, worker, Exc(err), err, 0))
        ELSE IF insufficient_limit(shifts[sid], method, delta)
            THEN Raise(Call(op, worker, "ValidationError", "insufficient_limit", 0))
        ELSE /\ shifts' = [shifts EXCEPT ![sid] = apply_delta(@, method, delta)]
             /\ txs' = Append(txs, NewTx(worker, sid, Null, "ADJUSTMENT",
                                         delta, created_by))
             /\ last' = Returned(op, worker, sid,
                                  Args(Some(delta), Null, method, Val(created_by)))
             /\ pre' = db
             /\ UNCHANGED <<users, deals, clock, sess>>

\* Lines 156-178: no open shift is NoActiveShift; otherwise the delta is
\* applied as it is and an ADJUSTMENT row is added.
adjust_balance(op, worker, delta, method, created_by) ==
    LET err == adjust_balance_error(worker)
        sid == get_active_shift(worker)
    IN  IF err # "" THEN Raise(Call(op, worker, Exc(err), err, 0))
        ELSE /\ shifts' = [shifts EXCEPT ![sid] = apply_delta(@, method, delta)]
             /\ txs' = Append(txs, NewTx(worker, sid, Null, "ADJUSTMENT",
                                         delta, created_by))
             /\ last' = Returned(op, worker, sid,
                                  Args(Some(delta), Null, method, Val(created_by)))
             /\ pre' = db
             /\ UNCHANGED <<users, deals, clock, sess>>

adjust_worker_balance_error(admin, worker_phone) ==
    IF users[admin].role # "admin" THEN "not_admin"
    ELSE IF get_active_user_by_phone(worker_phone) = 0 THEN "worker_not_found"
    ELSE adjust_balance_error(get_active_user_by_phone(worker_phone))

adjust_worker_balance(admin, worker_phone, delta, method) ==
    LET op == "adjust_worker_balance"
        worker == get_active_user_by_phone(worker_phone)
    IN  IF users[admin].role # "admin"
            THEN Raise(Call(op, 0, "ValidationError", "not_admin", 0))
        ELSE IF worker = 0
            THEN Raise(Call(op, 0, "ValidationError", "worker_not_found", 0))
        ELSE adjust_balance(op, worker, delta, method, Some(admin))

(***************************************************************************)
(* close_shift, close_open_shifts                                          *)
(***************************************************************************)
close_shift_error(worker) ==
    IF get_active_shift(worker) < 0 THEN "multiple_rows"
    ELSE IF get_active_shift(worker) = 0 THEN "no_shift"
    ELSE ""

\* Variant: the difference taken as reported - expected.
closed_row_diff_reversed(shift, reported_cash, reported_bank, now) ==
    LET cash_value == IF reported_cash # Null THEN Val(reported_cash)
                      ELSE shift.current_balance_cash
        bank_value == IF reported_bank # Null THEN Val(reported_bank)
                      ELSE shift.current_balance_bank
    IN  [shift EXCEPT !.status = "closed", !.closed_at = Some(now),
                      !.reported_cash = Some(cash_value),
                      !.reported_bank = Some(bank_value),
                      !.cash_diff = Some(cash_value - shift.current_balance_cash),
                      !.bank_diff = Some(bank_value - shift.current_balance_bank),
                      !.reported_at = Some(now)]

\* Variant: what is expected at closing is what the shift was opened with.
closed_row_expects_opening(shift, reported_cash, reported_bank, now) ==
    LET closed == [shift EXCEPT !.status = "closed", !.closed_at = Some(now)]
        expected_cash == shift.opening_balance_cash
        expected_bank == shift.opening_balance_bank
        cash_value == IF reported_cash # Null THEN Val(reported_cash)
                      ELSE expected_cash
        bank_value == IF reported_bank # Null THEN Val(reported_bank)
                      ELSE expected_bank
    IN  IF reported_cash # Null \/ reported_bank # Null
        THEN [closed EXCEPT !.reported_cash = Some(cash_value),
                            !.reported_bank = Some(bank_value),
                            !.cash_diff = Some(expected_cash - cash_value),
                            !.bank_diff = Some(expected_bank - bank_value),
                            !.reported_at = Some(now)]
        ELSE closed

\* Lines 210-221: the row as close_shift leaves it.
closed_row(shift, reported_cash, reported_bank, now) ==
    LET closed == [shift EXCEPT !.status = "closed", !.closed_at = Some(now)]
        expected_cash == shift.current_balance_cash
        expected_bank == shift.current_balance_bank
        cash_value == IF reported_cash # Null THEN Val(reported_cash)
                      ELSE expected_cash
        bank_value == IF reported_bank # Null THEN Val(reported_bank)
                      ELSE expected_bank
    IN  IF reported_cash # Null \/ reported_bank # Null
        THEN [closed EXCEPT !.reported_cash = Some(cash_value),
                            !.reported_bank = Some(bank_value),
                            !.cash_diff = Some(expected_cash - cash_value),
                            !.bank_diff = Some(expected_bank - bank_value),
                            !.reported_at = Some(now)]
        ELSE closed

close_shift(worker, reported_cash, reported_bank) ==
    LET err == close_shift_error(worker)
        sid == get_active_shift(worker)
    IN  IF err # "" THEN Raise(Call("close_shift", worker, Exc(err), err, 0))
        ELSE /\ shifts' = [shifts EXCEPT
                    ![sid] = closed_row(@, reported_cash, reported_bank, clock)]
             /\ clock' = clock + 1
             /\ last' = Returned("close_shift", worker, sid,
                                  Args(reported_cash, reported_bank, "", 0))
             /\ pre' = db
             /\ UNCHANGED <<users, deals, txs, sess>>

\* Variant: the sweep takes every shift, open or not.
EveryShiftId == DOMAIN shifts

AllOpenShiftIds == {i \in DOMAIN shifts : shifts[i].status = "open"}

close_open_shifts ==
    /\ shifts' = [i \in DOMAIN shifts |->
                    IF i \in AllOpenShiftIds
                    THEN [shifts[i] EXCEPT !.status = "closed",
                                           !.closed_at = Some(clock)]
                    ELSE shifts[i]]
    /\ clock' = IF AllOpenShiftIds = {} THEN clock ELSE clock + 1
    /\ last' = Returned("close_open_shifts", 0, Cardinality(AllOpenShiftIds), NoArgs)
    /\ pre' = db
    /\ UNCHANGED <<users, deals, txs, sess>>

(***************************************************************************)
(* soft_delete_deal and the read-only queries of services/deals.py         *)
(***************************************************************************)
\* Variant: the deal is looked up before the role is checked.
soft_delete_deal_error_lookup_first(admin, deal_id) ==
    IF deal_id \notin DOMAIN deals THEN "deal_not_found"
    ELSE IF users[admin].role # "admin" THEN "forbidden"
    ELSE ""

\* Lines 147-153: the role check comes before the lookup by primary key.
soft_delete_deal_error(admin, deal_id) ==
    IF users[admin].role # "admin" THEN "forbidden"
    ELSE IF deal_id \notin DOMAIN deals THEN "deal_not_found"
    ELSE ""

\* Variant: the deletion also voids the deal's ledger row.
soft_delete_deal_voids_ledger(admin, deal_id) ==
    LET err == soft_delete_deal_error(admin, deal_id)
    IN  IF err # "" THEN Raise(Call("soft_delete_deal", 0, Exc(err), err, 0))
        ELSE /\ deals' = [deals EXCEPT ![deal_id].is_deleted = TRUE]
             /\ txs' = [t \in DOMAIN txs |->
                          IF txs[t].deal_id = Some(deal_id)
                          THEN [txs[t] EXCEPT !.amount_delta = 0]
                          ELSE txs[t]]
             /\ last' = Returned("soft_delete_deal", 0, deal_id,
                                  Args(Some(deal_id), Null, "", admin))
             /\ pre' = db
             /\ UNCHANGED <<users, shifts, clock, sess>>

\* Variant: the deletion also clears the deal's amount.
soft_delete_deal_zeroes_amount(admin, deal_id) ==
    LET err == soft_delete_deal_error(admin, deal_id)
    IN  IF err # "" THEN Raise(Call("soft_delete_deal", 0, Exc(err), err, 0))
        ELSE /\ deals' = [deals EXCEPT ![deal_id].is_deleted = TRUE,
                                       ![deal_id].total_amount = 0]
             /\ last' = Returned("soft_delete_deal", 0, deal_id,
                                  Args(Some(deal_id), Null, "", admin))
             /\ pre' = db
             /\ UNCHANGED <<users, shifts, txs, clock, sess>>

\* Variant: the deletion also takes the deal's amount back out of the balance
\* of its shift.
soft_delete_deal_refunds(admin, deal_id) ==
    LET err == soft_delete_deal_error(admin, deal_id)
    IN  IF err # "" THEN Raise(Call("soft_delete_deal", 0, Exc(err), err, 0))
        ELSE /\ deals' = [deals EXCEPT ![deal_id].is_deleted = TRUE]
             /\ shifts' = [shifts EXCEPT ![deals[deal_id].shift_id] =
                              apply_delta(@, deals[deal_id].payment_method,
                                          0 - deals[deal_id].total_amount)]
             /\ last' = Returned("soft_delete_deal", 0, deal_id,
                                  Args(Some(deal_id), Null, "", admin))
             /\ pre' = db
             /\ UNCHANGED <<users, txs, clock, sess>>

\* Lines 138-156: the flag is set; nothing else is written.
soft_delete_deal(admin, deal_id) ==
    LET err == soft_delete_deal_error(admin, deal_id)
    IN  IF err # "" THEN Raise(Call("soft_delete_deal", 0, Exc(err), err, 0))
        ELSE /\ deals' = [deals EXCEPT ![deal_id].is_deleted = TRUE]
             /\ last' = Returned("soft_delete_deal", 0, deal_id,
                                  Args(Some(deal_id), Null, "", admin))
             /\ pre' = db
             /\ UNCHANGED <<users, shifts, txs, clock, sess>>

\* Variant: the status filter of line 211 left out.
get_balance_breakdown_shift_any_status(worker_id) ==
    one_or_none({i \in DOMAIN shifts : shifts[i].worker_id = worker_id})

\* Lines 207-214: the worker's open shift.
get_balance_breakdown_shift(worker_id) == one_or_none(OpenShiftIds(worker_id))

\* Lines 204-223: {cash, bank, total} of the open shift; get_active_balance
\* (193-201) returns the total of the same breakdown.  ret is the total,
\* args.x and args.y the cash and bank parts.
get_balance_breakdown(op, worker) ==
    LET sid == get_balance_breakdown_shift(worker)
    IN  IF sid < 0
            THEN Raise(Call(op, worker, Exc("multiple_rows"), "multiple_rows", 0))
        ELSE IF sid = 0
            THEN Raise(Call(op, worker, Exc("no_shift"), "no_shift", 0))
        ELSE /\ last' = Returned(op, worker,
                            shifts[sid].current_balance_cash
                            + shifts[sid].current_balance_bank,
                            Args(Some(shifts[sid].current_balance_cash),
                                 Some(shifts[sid].current_balance_bank), "", 0))
             /\ pre' = db
             /\ UNCHANGED <<users, shifts, deals, txs, clock, sess>>

get_active_balance(worker) == get_balance_breakdown("get_active_balance", worker)

\* The rows of a set of deals by created_at, newest first (order_by
\* created_at desc), as the sequence of their ids.
RECURSIVE newest_first(_)
newest_first(S) ==
    IF S = {} THEN <<>>
    ELSE LET d == CHOOSE i \in S :
                      \A j \in S : deals[j].created_at <= deals[i].created_at
         IN  <<d>> \o newest_first(S \ {d})

\* LIMIT n.
limit_rows(rows, n) == SubSeq(rows, 1, IF Len(rows) < n THEN Len(rows) ELSE n)

\* Variant: the is_deleted filter of line 171 left out.
list_worker_deals_rows_with_deleted(worker_id, limit) ==
    limit_rows(newest_first({d \in DOMAIN deals :
                                deals[d].worker_id = worker_id}),
               limit)

\* Lines 166-175: the query of list_worker_deals.
list_worker_deals_rows(worker_id, limit) ==
    limit_rows(newest_first({d \in DOMAIN deals :
                                deals[d].worker_id = worker_id
                                /\ ~deals[d].is_deleted}),
               limit)

\* args.x holds the ids of the rows returned, args.y the limit.
list_worker_deals(worker, limit) ==
    /\ last' = Returned("list_worker_deals", worker,
                         Len(list_worker_deals_rows(worker, limit)),
                         Args(list_worker_deals_rows(worker, limit),
                              Some(limit), "", 0))
    /\ pre' = db
    /\ UNCHANGED <<users, shifts, deals, txs, clock, sess>>

\* Lines 182-190: the query of get_worker_deal.
get_worker_deal_row(worker_id, deal_id) ==
    one_or_none({d \in DOMAIN deals :
                    /\ d = deal_id
                    /\ deals[d].worker_id = worker_id
                    /\ ~deals[d].is_deleted})

\* ret is the id of the deal, 0 for None.
get_worker_deal(worker, deal_id) ==
    /\ last' = Returned("get_worker_deal", worker,
                         get_worker_deal_row(worker, deal_id),
                         Args(Some(deal_id), Null, "", 0))
    /\ pre' = db
    /\ UNCHANGED <<users, shifts, deals, txs, clock, sess>>

(***************************************************************************)
(* Reports of services/admin.py: the aggregates, not their rendering as    *)
(* text.  A query is a function of the table D it reads.                   *)
(***************************************************************************)
\* datetime.combine(start, datetime.min.time()): the first instant of a day.
start_dt(day) == day * TicksPerDay

\* datetime.combine(end, datetime.max.time()): the last instant of a day.
end_dt(day) == day * TicksPerDay + (TicksPerDay - 1)

\* Variant: the is_deleted filter left out.
base_filters_with_deleted(D, start, end) ==
    {d \in DOMAIN D :
        /\ D[d].created_at >= start_dt(start)
        /\ D[d].created_at <= end_dt(end)}

\* admin.py 94-98 and 368-372: the non-deleted deals created in the period.
base_filters(D, start, end) ==
    {d \in DOMAIN D :
        /\ ~D[d].is_deleted
        /\ D[d].created_at >= start_dt(start)
        /\ D[d].created_at <= end_dt(end)}

\* func.sum(Deal.total_amount) over the rows S, 0 for no row (coalesce).
RECURSIVE sum_total_amount(_, _)
sum_total_amount(D, S) ==
    IF S = {} THEN 0
    ELSE LET d == CHOOSE i \in S : TRUE
         IN  D[d].total_amount + sum_total_amount(D, S \ {d})

\* admin.py 208-274: the aggregate columns over the rows S.
aggregate_columns(D, S) ==
    [total_count |-> Cardinality(S),
     net_sum |-> sum_total_amount(D, S),
     issued_sum |-> sum_total_amount(D, {d \in S : D[d].total_amount > 0}),
     issued_count |-> Cardinality({d \in S : D[d].total_amount > 0}),
     return_sum |-> 0 - sum_total_amount(D, {d \in S : D[d].total_amount < 0}),
     return_count |-> Cardinality({d \in S : D[d].total_amount < 0}),
     cash_sum |-> sum_total_amount(D, {d \in S : D[d].payment_method = "cash"}),
     cash_count |-> Cardinality({d \in S : D[d].payment_method = "cash"}),
     bank_sum |-> sum_total_amount(D, {d \in S : D[d].payment_method = "bank"}),
     bank_count |-> Cardinality({d \in S : D[d].payment_method = "bank"})]

\* admin.py 100-112: the summary of build_deals_report; worker is 0 when no
\* worker_phone is given.
deals_report_summary(D, start, end, worker) ==
    aggregate_columns(D, {d \in base_filters(D, start, end) :
                             worker = 0 \/ D[d].worker_id = worker})

\* admin.py 129-140: one row per worker that has a deal in the period.
deals_report_detail_rows(D, start, end) ==
    [w \in {D[d].worker_id : d \in base_filters(D, start, end)} |->
        aggregate_columns(D, {d \in base_filters(D, start, end) :
                                 D[d].worker_id = w})]

\* admin.py 277-282: the aggregates of one deal type.
aggregate_for_type(D, start, end, deal_type) ==
    aggregate_columns(D, {d \in base_filters(D, start, end) :
                             D[d].deal_type = deal_type})

\* admin.py 380-392: one row per worker and deal type.
full_report_detail_rows(D, start, end) ==
    [k \in {<<D[d].worker_id, D[d].deal_type>> :
               d \in base_filters(D, start, end)} |->
        aggregate_columns(D, {d \in base_filters(D, start, end) :
                                 /\ D[d].worker_id = k[1]
                                 /\ D[d].deal_type = k[2]})]

\* admin.py 355-453: summary, installments, operations and details.
collect_full_report_data(D, start, end) ==
    [summary |-> aggregate_columns(D, base_filters(D, start, end)),
     installments |-> aggregate_for_type(D, start, end, "installment"),
     operations |-> aggregate_for_type(D, start, end, "operation"),
     details |-> full_report_detail_rows(D, start, end)]

\* admin.py 201-205: _as_decimal, 0 for None.
as_decimal(value) == IF value = Null THEN 0 ELSE Val(value)

\* Variant: every reconciled shift of the period, whatever its differences.
mismatch_filter_any_diff(S, start, end) ==
    {i \in DOMAIN S :
        /\ S[i].closed_at # Null
        /\ Val(S[i].closed_at) >= start_dt(start)
        /\ Val(S[i].closed_at) <= end_dt(end)
        /\ S[i].reported_at # Null}

\* admin.py 169-176 and 407-414: the filter of the mismatch query.  A
\* comparison with a NULL closed_at is not true in SQL.
mismatch_filter(S, start, end) ==
    {i \in DOMAIN S :
        /\ S[i].closed_at # Null
        /\ Val(S[i].closed_at) >= start_dt(start)
        /\ Val(S[i].closed_at) <= end_dt(end)
        /\ S[i].reported_at # Null
        /\ (as_decimal(S[i].cash_diff) # 0 \/ as_decimal(S[i].bank_diff) # 0)}

\* order_by(Shift.closed_at.desc()); rows closed at the same instant come
\* in the order of their ids.
RECURSIVE closed_at_desc(_, _)
closed_at_desc(S, ids) ==
    IF ids = {} THEN <<>>
    ELSE LET top == CHOOSE i \in ids :
                       \A j \in ids :
                          \/ Val(S[j].closed_at) < Val(S[i].closed_at)
                          \/ (Val(S[j].closed_at) = Val(S[i].closed_at) /\ i <= j)
         IN  <<top>> \o closed_at_desc(S, ids \ {top})

\* admin.py 183-184 and 441-449: what is shown for one mismatch row.
mismatch_entry(S, i) ==
    [shift |-> i,
     closed_at |-> Val(S[i].closed_at),
     cash_expected |-> as_decimal(S[i].reported_cash) + as_decimal(S[i].cash_diff),
     cash_actual |-> as_decimal(S[i].reported_cash),
     cash_diff |-> as_decimal(S[i].cash_diff),
     bank_expected |-> as_decimal(S[i].reported_bank) + as_decimal(S[i].bank_diff),
     bank_actual |-> as_decimal(S[i].reported_bank),
     bank_diff |-> as_decimal(S[i].bank_diff)]

\* admin.py 157-192 and 396-452: the mismatch section, newest close first.
mismatch_rows(S, start, end) ==
    LET order == closed_at_desc(S, mismatch_filter(S, start, end))
    IN  [k \in 1..Len(order) |-> mismatch_entry(S, order[k])]

\* A report as it is kept in last: ret is the total_count of the summary,
\* args.x the mismatch section.
ReportArgs(S, start, end) == Args(mismatch_rows(S, start, end), Null, "", 0)

\* Variant: a report that marks the deals it has counted as deleted.
build_deals_report_consuming(start, end, worker_phone) ==
    /\ deals' = [d \in DOMAIN deals |->
                    IF d \in base_filters(deals, start, end)
                    THEN [deals[d] EXCEPT !.is_deleted = TRUE]
                    ELSE deals[d]]
    /\ last' = Returned("build_deals_report", 0,
                   deals_report_summary(deals, start, end, 0).total_count,
                   ReportArgs(shifts, start, end))
    /\ pre' = db
    /\ UNCHANGED <<users, shifts, txs, clock, sess>>

\* build_deals_report(start, end, worker_phone); worker_phone is 0 for None.
build_deals_report(start, end, worker_phone) ==
    LET worker == IF worker_phone = 0 THEN 0
                  ELSE get_active_user_by_phone(worker_phone)
    IN  IF worker_phone # 0 /\ worker = 0
            THEN Raise(Call("build_deals_report", 0, "ValidationError",
                            "worker_not_found", 0))
        ELSE /\ last' = Returned("build_deals_report", worker,
                            deals_report_summary(deals, start, end, worker).total_count,
                            ReportArgs(shifts, start, end))
             /\ pre' = db
             /\ UNCHANGED <<users, shifts, deals, txs, clock, sess>>

\* admin.py 285-287: datetime.now(MOSCOW_TZ).date(), the day of the clock.
today == clock \div TicksPerDay

\* build_today_summary(): the report of today alone, for every worker.
build_today_summary ==
    /\ last' = Returned("build_today_summary", 0,
                   deals_report_summary(deals, today, today, 0).total_count,
                   ReportArgs(shifts, today, today))
    /\ pre' = db
    /\ UNCHANGED <<users, shifts, deals, txs, clock, sess>>

\* build_full_report(start, end).
build_full_report(start, end) ==
    /\ last' = Returned("build_full_report", 0,
                   collect_full_report_data(deals, start, end).summary.total_count,
                   ReportArgs(shifts, start, end))
    /\ pre' = db
    /\ UNCHANGED <<users, shifts, deals, txs, clock, sess>>

(***************************************************************************)
(* Conversations: handlers/menu.py, handlers/utils.py, handlers/manage.py. *)
(* chat.conv[s] is what the state manager keeps for sender s (the state    *)
(* name, "" for none, and the state data); chat.out is the last handler    *)
(* call: its answers, and the exception that left it, "" for none.  A      *)
(* sender is a phone.  Money is counted in Tick-ths of a unit, so that a   *)
(* price with two decimals and its markup are whole numbers.               *)
(***************************************************************************)
Senders == 1..(Len(InitUsers) + 1)

\* utils/auth.py 7-12: the senders named by settings.admin_phones.
AUTHORIZED_ADMIN_SENDERS == {u \in UserIds : InitUsers[u].role = "admin"}

is_authorized_admin(sender) == sender \in AUTHORIZED_ADMIN_SENDERS

NoData == [k \in {} |-> 0]
NoConv == [state |-> "", data |-> NoData]
NoOut == [handler |-> "", sender |-> 0, was |-> NoConv, answers |-> <<>>,
          exc |-> ""]
IdleChat == [conv |-> [s \in Senders |-> NoConv], out |-> NoOut]

\* The state manager as the handlers use it (tests/test_handlers.py 24-47).
delete_state(c) == [c EXCEPT !.state = "", !.data = NoData]
set_state(c, state) == [c EXCEPT !.state = state]
update_state_data(c, data) ==
    [c EXCEPT !.data = [k \in DOMAIN c.data \cup DOMAIN data |->
                           IF k \in DOMAIN data THEN data[k] ELSE c.data[k]]]

\* utils/fsm.py 34-66: the state changes, the data stay.
switch_state(c, state) == [c EXCEPT !.state = state]

\* notification.answer(text).
answer(c, text) == [c EXCEPT !.answers = Append(@, text)]

\* What a handler works on: the sender's conversation and the answers so far.
Work(sender) == [state |-> chat.conv[sender].state,
                 data |-> chat.conv[sender].data,
                 answers |-> <<>>]

\* The handler returns: the conversation and the answers are kept; was is
\* the conversation the handler found.
Handled(handler, sender, c, exc) ==
    chat' = [conv |-> [chat.conv EXCEPT ![sender] =
                          [state |-> c.state, data |-> c.data]],
             out |-> [handler |-> handler, sender |-> sender,
                      was |-> chat.conv[sender],
                      answers |-> c.answers, exc |-> exc]]

\* The texts a sender types, normalised as strip().lower() does.
ADMIN_MENU_COMMANDS == {"admin"}
WORKER_MENU_COMMANDS == {"manager"}
MENU_COMMANDS == ADMIN_MENU_COMMANDS \cup WORKER_MENU_COMMANDS
HELP_COMMANDS == {"help"}
CANCEL_KEYWORDS == {"cancel"}

\* Variant: the admin menu is opened for whoever asks.
menu_command_open_admin(c, sender, text) ==
    LET cleared == IF c.state # "" /\ text \in MENU_COMMANDS
                   THEN delete_state(c) ELSE c
    IN  IF text \in ADMIN_MENU_COMMANDS THEN answer(cleared, "admin_menu")
        ELSE c

\* Variant: a menu command leaves the state of the conversation as it is.
menu_command_keeps_state(c, sender, text) ==
    IF text \in ADMIN_MENU_COMMANDS
        THEN IF is_authorized_admin(sender) THEN answer(c, "admin_menu")
             ELSE answer(c, "ADMIN_FORBIDDEN_TEXT")
    ELSE IF text \in WORKER_MENU_COMMANDS
        THEN IF get_active_user_by_phone(sender) > 0
             THEN answer(c, "worker_menu")
             ELSE answer(c, "WORKER_FORBIDDEN_TEXT")
    ELSE c

\* menu.py 65-107: handle_menu_command on the conversation c.  A lookup
\* that raises (more than one active user of the phone) is answered as no
\* access.
menu_command(c, sender, text) ==
    LET cleared == IF c.state # "" /\ text \in MENU_COMMANDS
                   THEN delete_state(c) ELSE c
    IN  IF text = "" THEN c
        ELSE IF text \notin MENU_COMMANDS /\ text \notin HELP_COMMANDS THEN c
        ELSE IF text \in ADMIN_MENU_COMMANDS
            THEN IF is_authorized_admin(sender)
                 THEN answer(cleared, "admin_menu")
                 ELSE answer(cleared, "ADMIN_FORBIDDEN_TEXT")
        ELSE IF text \in WORKER_MENU_COMMANDS
            THEN IF get_active_user_by_phone(sender) > 0
                 THEN answer(cleared, "worker_menu")
                 ELSE answer(cleared, "WORKER_FORBIDDEN_TEXT")
        ELSE answer(cleared, "FULL_HELP_TEXT")

\* handle_menu_command(notification): the handler of a text message.
handle_menu_command(sender, text) ==
    /\ Handled("handle_menu_command", sender,
               menu_command(Work(sender), sender, text), "")
    /\ UNCHANGED <<users, shifts, deals, txs, clock, last, pre, sess>>

\* handlers/utils.py 8-37: handle_menu_shortcut, TRUE when a menu command
\* was typed.
is_menu_shortcut(text) == text \in MENU_COMMANDS

\* handlers/utils.py 40-54 and the callers' "delete_state" after a shortcut.
menu_shortcut(c, sender, text) == delete_state(menu_command(c, sender, text))

back_command(c) == answer(delete_state(c), "cancelled")

\* The numbers a sender types, as Decimal(raw.replace(",", ".")) reads them,
\* in ticks; any other text but "nan" is not a number.
DecimalTable ==
    ("0" :> 0) @@ ("-5" :> (0 - 5) * Tick) @@ ("3" :> 3 * Tick) @@
    ("5" :> 5 * Tick) @@ ("15" :> 15 * Tick) @@ ("20" :> 20 * Tick) @@
    ("101" :> 101 * Tick) @@ ("121" :> 121 * Tick) @@ ("200" :> 200 * Tick) @@
    ("1000" :> 1000 * Tick) @@ ("5000" :> 5000 * Tick) @@
    ("10.01" :> 10 * Tick + CentTicks) @@ ("2.5" :> 2 * Tick + Tick \div 2)

\* What a parser gives: a value, the message of its ValueError, or the
\* exception that is not a ValueError.
Parsed(value) == [value |-> Some(value), error |-> "", raised |-> ""]
Refused(error) == [value |-> Null, error |-> error, raised |-> ""]
Raising(exc) == [value |-> Null, error |-> "", raised |-> exc]

\* manage.py 667-674.  The comparison is made outside the try: comparing
\* NaN raises decimal.InvalidOperation, which is no ValueError.
parse_positive_decimal(raw) ==
    IF raw = "nan" THEN Raising("InvalidOperation")
    ELSE IF raw \notin DOMAIN DecimalTable THEN Refused("not_a_number")
    ELSE IF DecimalTable[raw] <= 0 THEN Refused("must_be_positive")
    ELSE Parsed(DecimalTable[raw])

\* manage.py 677-684: int(raw.strip()); a text with a decimal point is no
\* integer.
parse_positive_int(raw) ==
    IF raw \notin DOMAIN DecimalTable \/ DecimalTable[raw] % Tick # 0
        THEN Refused("not_an_integer")
    ELSE IF DecimalTable[raw] <= 0 THEN Refused("must_be_positive")
    ELSE Parsed(DecimalTable[raw] \div Tick)

\* manage.py 687-694.
parse_non_negative_decimal(raw) ==
    IF raw = "nan" THEN Raising("InvalidOperation")
    ELSE IF raw \notin DOMAIN DecimalTable THEN Refused("not_a_number")
    ELSE IF DecimalTable[raw] < 0 THEN Refused("must_not_be_negative")
    ELSE Parsed(DecimalTable[raw])

\* manage.py 657-659: PAYMENT_CHOICES.get(key), Null for no method.
parse_payment_method(raw) ==
    IF raw \in Methods THEN Some(raw) ELSE Null

\* manage.py 701: markup = (price * percent) / 100, for a percent that is a
\* whole number (percent is kept in ticks).
markup_of(price, percent) == (price * (percent \div Tick)) \div 100

\* manage.py 695-703: _calc_installment_total; Null when the data lack the
\* price or the percent (ValueError).
calc_installment_total(data) ==
    IF ~({"installment_price", "installment_percent"} \subseteq DOMAIN data)
        THEN Null
    ELSE LET price == data["installment_price"]
             percent == data["installment_percent"]
             markup == markup_of(price, percent)
         IN  Some([price |-> price, percent |-> percent, markup |-> markup,
                   total |-> price + markup])

\* Variant: the monthly payment rounded down.
monthly_payment_floor(remaining, term) ==
    IF term = 0 THEN (remaining \div Tick) * Tick
    ELSE (remaining \div (term * Tick)) * Tick

\* manage.py 485-488: (remaining / term).quantize(Decimal("1"),
\* ROUND_HALF_UP), for remaining >= 0.
monthly_payment(remaining, term) ==
    IF term = 0 THEN ((2 * remaining + Tick) \div (2 * Tick)) * Tick
    ELSE ((2 * remaining + term * Tick) \div (2 * term * Tick)) * Tick

\* manage.py 496-504: installment_data of the call of create_deal.
installment_data_of(data) ==
    LET calc == Val(calc_installment_total(data))
        term == data["installment_term"]
        down_payment == IF "installment_down_payment" \in DOMAIN data
                        THEN data["installment_down_payment"] ELSE 0
    IN  [product_price |-> calc.price,
         markup_percent |-> calc.percent,
         markup_amount |-> calc.markup,
         installment_term_months |-> term,
         down_payment_amount |-> down_payment,
         installment_total_amount |-> calc.total,
         monthly_payment_amount |->
             monthly_payment(calc.total - down_payment, term)]

\* Variant: what is debited is the down payment.
installment_amount_down_payment(data) == 0 - data["installment_down_payment"]

\* manage.py 493: total_amount=-price.
installment_amount(data) == 0 - data["installment_price"]

\* manage.py 65-78: _start_installment_flow.
start_installment_flow(c, sender) ==
    LET worker == get_active_user_by_phone(sender)
    IN  IF worker <= 0 THEN answer(c, "no_access")
        ELSE IF get_active_shift(worker) = 0 THEN answer(c, "shift_not_open")
        ELSE answer(set_state(c, "installment:price"), "INSTALLMENT_START_PROMPT")

\* manage.py 476-482, 505-507: the message of what the final step raises
\* before or in create_deal, "" when the deal is created.
installment_final_error(sender, data, method) ==
    LET worker == get_active_user_by_phone(sender)
    IN  IF worker < 0 THEN "multiple_rows"
        ELSE IF worker = 0 THEN "no_access"
        ELSE IF calc_installment_total(data) = Null THEN "data_corrupted"
        ELSE IF "installment_term" \notin DOMAIN data THEN "TypeError"
        ELSE IF installment_data_of(data).down_payment_amount
                   > installment_data_of(data).installment_total_amount
            THEN "down_payment_exceeds_total"
        ELSE create_deal_error(worker, installment_amount(data), method)

\* Variant: any positive percent is taken.
percent_in_range_any(percent) == percent > 0

\* manage.py 406: percent < 1 or percent > 100 is refused.
percent_in_range(percent) == percent >= Tick /\ percent <= 100 * Tick

\* manage.py 423: term < 1 or term > 120 is refused.
term_in_range(term) == term >= 1 /\ term <= 120

\* manage.py 371-469: the steps of installment_steps that call no service;
\* the result is the conversation and the exception that leaves the
\* handler.
installment_input_step(c, sender, text) ==
    LET keep(conv) == [c |-> conv, exc |-> ""]
        price == parse_positive_decimal(text)
        percent == parse_positive_decimal(text)
        term == parse_positive_int(text)
        down_payment == parse_non_negative_decimal(text)
        calc == calc_installment_total(c.data)
    IN  IF c.state = "installment:price"
            THEN IF price.raised # "" THEN [c |-> c, exc |-> price.raised]
                 ELSE IF price.error # "" THEN keep(answer(c, price.error))
                 ELSE keep(answer(switch_state(
                              update_state_data(c,
                                  [installment_price |-> Val(price.value)]),
                              "installment:percent"), "percent_prompt"))
        ELSE IF c.state = "installment:percent"
            THEN IF percent.raised # "" THEN [c |-> c, exc |-> percent.raised]
                 ELSE IF percent.error # "" THEN keep(answer(c, percent.error))
                 ELSE IF ~percent_in_range(Val(percent.value))
                     THEN keep(answer(c, "percent_out_of_range"))
                 ELSE keep(answer(switch_state(
                              update_state_data(c,
                                  [installment_percent |-> Val(percent.value)]),
                              "installment:term"), "term_prompt"))
        ELSE IF c.state = "installment:term"
            THEN IF term.error # "" THEN keep(answer(c, term.error))
                 ELSE IF ~term_in_range(Val(term.value))
                     THEN keep(answer(c, "term_out_of_range"))
                 ELSE IF calc = Null
                     THEN keep(delete_state(answer(c, "data_corrupted")))
                 ELSE keep(answer(switch_state(
                              update_state_data(c,
                                  [installment_term |-> Val(term.value)]),
                              "installment:down_payment"), "down_payment_prompt"))
        ELSE IF c.state = "installment:down_payment"
            THEN IF down_payment.raised # ""
                     THEN [c |-> c, exc |-> down_payment.raised]
                 ELSE IF down_payment.error # ""
                     THEN keep(answer(c, down_payment.error))
                 ELSE IF calc = Null \/ "installment_term" \notin DOMAIN c.data
                     THEN keep(delete_state(answer(c, "data_corrupted")))
                 ELSE IF Val(down_payment.value) > Val(calc).total
                     THEN keep(answer(c, "down_payment_exceeds_total"))
                 ELSE keep(answer(switch_state(
                              update_state_data(c,
                                  [installment_down_payment |->
                                      Val(down_payment.value)]),
                              "installment:payment_method"), "method_prompt"))
        ELSE keep(c)

\* manage.py 505-507: except Exception: answer(str(exc)); return.
installment_refused(c, error) == answer(c, error)

INSTALLMENT_STATES ==
    {"installment:price", "installment:percent", "installment:term",
     "installment:down_payment", "installment:payment_method"}

\* manage.py 371-519: installment_steps for the sender's text.
installment_steps(sender, text) ==
    LET handler == "installment_steps"
        c == Work(sender)
        method == parse_payment_method(text)
        error == installment_final_error(sender, c.data, Val(method))
        worker == get_active_user_by_phone(sender)
        silent == UNCHANGED <<users, shifts, deals, txs, clock, last, pre, sess>>
    IN  /\ c.state \in INSTALLMENT_STATES
        /\ IF text \in CANCEL_KEYWORDS
               THEN Handled(handler, sender, back_command(c), "") /\ silent
           ELSE IF is_menu_shortcut(text)
               THEN Handled(handler, sender, menu_shortcut(c, sender, text), "")
                    /\ silent
           ELSE IF c.state # "installment:payment_method"
               THEN /\ Handled(handler, sender,
                               installment_input_step(c, sender, text).c,
                               installment_input_step(c, sender, text).exc)
                    /\ silent
           ELSE IF method = Null
               THEN Handled(handler, sender, answer(c, "PAYMENT_METHOD_RETRY"), "")
                    /\ silent
           ELSE IF error \in {"multiple_rows", "no_access", "data_corrupted",
                              "TypeError", "down_payment_exceeds_total"}
               THEN Handled(handler, sender, installment_refused(c, error), "")
                    /\ silent
           ELSE /\ create_deal_with(worker, installment_amount(c.data),
                                    Val(method), "installment",
                                    Some(installment_data_of(c.data)))
                /\ IF error # ""
                   THEN Handled(handler, sender, installment_refused(c, error), "")
                   ELSE Handled(handler, sender,
                                start_installment_flow(
                                    delete_state(answer(c, "installment_saved")),
                                    sender), "")

\* What is typed at the steps of the installment conversation.
InstallmentTexts ==
    [c \in INSTALLMENT_STATES |->
        {"manager", "cancel"} \cup
        CASE c = "installment:price" -> {"abc", "nan", "0", "1000", "10.01"}
          [] c = "installment:percent" -> {"abc", "0", "101", "15", "20"}
          [] c = "installment:term" -> {"2.5", "0", "121", "3", "5"}
          [] c = "installment:down_payment" -> {"-5", "0", "200", "5000"}
          [] OTHER -> {"abc", "cash", "bank"}]

\* manage.py 118-134: the button that starts the installment conversation.
installment_button(sender) ==
    /\ Handled("worker_buttons_handler", sender,
               IF get_active_user_by_phone(sender) <= 0
               THEN answer(Work(sender), "no_access")
               ELSE start_installment_flow(Work(sender), sender), "")
    /\ UNCHANGED <<users, shifts, deals, txs, clock, last, pre, sess>>

(***************************************************************************)
(* add_manager and disable_manager of services/users.py.  User.phone is    *)
(* unique, so a phone names at most one row.                               *)
(***************************************************************************)
\* users.py 22-43: normalize_phone.  A typed phone is a number in one of
\* the spellings 7XXXXXXXXXX@c.us ("c.us"), 7XXXXXXXXXX ("digits"),
\* 8XXXXXXXXXX ("eight"), or a text that is no phone ("short", "empty").
\* The three spellings give the same normalized phone; 0 stands for the
\* ValidationError.
normalize_phone(raw_phone) ==
    IF raw_phone.form \in {"c.us", "digits", "eight"} THEN raw_phone.number
    ELSE 0

\* Variant: only the active user of the phone is looked for.
user_by_phone_active(phone) ==
    one_or_none({u \in DOMAIN users :
                    users[u].phone = phone /\ users[u].is_active})

user_by_phone(phone) ==
    one_or_none({u \in DOMAIN users : users[u].phone = phone})

\* users.py 69-90: the user of the phone is made an active worker; a phone
\* nobody has gets a new row.
add_manager(raw_phone) ==
    LET phone == normalize_phone(raw_phone)
        user == user_by_phone(phone)
    IN  IF phone = 0
        THEN Raise(Call("add_manager", 0, "ValidationError", "phone_format", 0))
        ELSE /\ users' = IF user > 0
                         THEN [users EXCEPT ![user].role = "worker",
                                            ![user].is_active = TRUE]
                         ELSE Append(users, [phone |-> phone, role |-> "worker",
                                             is_active |-> TRUE])
             /\ last' = Returned("add_manager", 0,
                                 IF user > 0 THEN user ELSE Len(users) + 1,
                                 NoArgs)
             /\ pre' = db
             /\ UNCHANGED <<shifts, deals, txs, clock, sess>>

\* users.py 103-107: the worker of the phone.
disable_manager_user(phone) ==
    one_or_none({u \in DOMAIN users :
                    users[u].phone = phone /\ users[u].role = "worker"})

\* users.py 101-112.
disable_manager(raw_phone) ==
    LET phone == normalize_phone(raw_phone)
        user == disable_manager_user(phone)
    IN  IF phone = 0
        THEN Raise(Call("disable_manager", 0, "ValidationError",
                        "phone_format", 0))
        ELSE IF user = 0
        THEN Raise(Call("disable_manager", 0, "ValidationError",
                        "manager_not_found", 0))
        ELSE /\ users' = [users EXCEPT ![user].is_active = FALSE]
             /\ last' = Returned("disable_manager", 0, user, NoArgs)
             /\ pre' = db
             /\ UNCHANGED <<shifts, deals, txs, clock, sess>>

(***************************************************************************)
(* The admin panel: handlers/admin.py and the routes of main.py.  Buttons  *)
(* are named in English: "add_manager", "disable_manager",                 *)
(* "adjust_balance", "delete_deal", "report", "today_report" and           *)
(* "full_report" are ADMIN_MENU_BUTTONS in the order of the source, "day", *)
(* "month", "year" and "period" are FULL_REPORT_BUTTONS.                   *)
(***************************************************************************)
ADMIN_MENU_BUTTONS ==
    {"add_manager", "disable_manager", "adjust_balance", "delete_deal",
     "report", "today_report", "full_report"}
FULL_REPORT_BUTTONS == {"day", "month", "year", "period"}

\* states/admin.py 4-39: the states of the admin conversations.
ADMIN_STATES ==
    {"admin_add_manager_sender", "admin_delete_manager_sender",
     "admin_analytics_manager_phone", "admin_adjust_balance_worker_phone",
     "admin_adjust_balance_kind", "admin_adjust_balance_delta",
     "admin_delete_deal_id", "admin_full_report_custom_range"}

\* services/users.py 22-112 defines these four functions and no other.
\* A handler that looks another name up on the module (admin.py 210 and
\* 235: user_service.ensure_admin) is left by AttributeError; "" stands
\* for a name that is there.
user_service_functions ==
    {"normalize_phone", "get_active_user_by_phone", "add_manager",
     "disable_manager"}

user_service_lookup(name) ==
    IF name \in user_service_functions THEN "" ELSE "AttributeError"

\* admin.py 406-412: _parse_balance_kind on the stripped, lowered text.
parse_balance_kind(raw) ==
    IF raw = "cash" THEN Some("cash")
    ELSE IF raw = "bank" THEN Some("bank")
    ELSE Null

\* admin.py 228-233: int(raw.lstrip("#").strip()); Null for ValueError.
parse_deal_id(raw) ==
    IF raw \in {"1", "#1"} THEN Some(1)
    ELSE IF raw = "7" THEN Some(7)
    ELSE Null

\* admin.py 356-366: _resolve_quick_full_report_range; the days of the
\* model are days of one month of one year.
resolve_quick_full_report_range(choice) ==
    IF choice = "day" THEN <<today, today>> ELSE <<0, today>>

\* admin.py 287-313: handle_full_report_choice.
handle_full_report_choice(sender, choice) ==
    LET c == Work(sender)
        range == resolve_quick_full_report_range(choice)
    IN  IF choice = "period"
            THEN /\ Handled("handle_full_report_choice", sender,
                            answer(set_state(c, "admin_full_report_custom_range"),
                                   "custom_range_prompt"), "")
                 /\ UNCHANGED <<users, shifts, deals, txs, clock, last, pre, sess>>
        ELSE /\ build_full_report(range[1], range[2])
             /\ Handled("handle_full_report_choice", sender,
                        answer(c, "full_report"), "")

\* admin.py 73-126: admin_buttons_handler.
admin_buttons_handler(sender, txt) ==
    LET handler == "admin_buttons_handler"
        c == Work(sender)
        prompt(state, text) == Handled(handler, sender,
                                       set_state(answer(c, text), state), "")
        silent == UNCHANGED <<users, shifts, deals, txs, clock, last, pre, sess>>
    IN  IF txt = "add_manager"
            THEN prompt("admin_add_manager_sender", "add_manager_prompt")
                 /\ silent
        ELSE IF txt = "disable_manager"
            THEN prompt("admin_delete_manager_sender", "disable_manager_prompt")
                 /\ silent
        ELSE IF txt = "adjust_balance"
            THEN prompt("admin_adjust_balance_worker_phone", "worker_phone_prompt")
                 /\ silent
        ELSE IF txt = "delete_deal"
            THEN prompt("admin_delete_deal_id", "delete_deal_prompt") /\ silent
        ELSE IF txt = "report"
            THEN prompt("admin_analytics_manager_phone", "report_prompt")
                 /\ silent
        ELSE IF txt = "today_report"
            THEN /\ build_today_summary
                 /\ Handled(handler, sender, answer(c, "today_report"), "")
        ELSE IF txt = "full_report"
            THEN Handled(handler, sender, answer(c, "full_report_menu"), "")
                 /\ silent
        ELSE IF txt \in FULL_REPORT_BUTTONS
            THEN handle_full_report_choice(sender, txt)
        ELSE Handled(handler, sender, answer(c, "not_supported"), "") /\ silent

\* main.py 100-136: buttons_handler and _handle_button_payload, for the
\* text of the pressed button.  Of the worker's buttons "installment" is
\* followed (manage.py 117-132).
buttons_handler(sender, txt) ==
    IF txt \in ADMIN_MENU_BUTTONS THEN admin_buttons_handler(sender, txt)
    ELSE IF txt \in FULL_REPORT_BUTTONS
        THEN handle_full_report_choice(sender, txt)
    ELSE /\ txt = "installment"
         /\ installment_button(sender)

\* admin.py 174-218: admin_adjust_balance on the conversation c.  At the
\* delta step line 210 looks ensure_admin up on the users module, which
\* raises; the except clause answers str(exc), the finally clause deletes
\* the state, and the call of adjust_worker_balance in line 211 is not
\* reached.
admin_adjust_balance(c, sender, text) ==
    LET method == parse_balance_kind(text)
    IN  IF text \in ADMIN_MENU_COMMANDS
            THEN delete_state(menu_command(c, sender, text))
        ELSE IF c.state = "admin_adjust_balance_worker_phone"
            THEN answer(switch_state(update_state_data(c, [worker_phone |-> text]),
                                     "admin_adjust_balance_kind"),
                        "balance_kind_prompt")
        ELSE IF c.state = "admin_adjust_balance_kind"
            THEN IF method = Null THEN answer(c, "balance_kind_retry")
                 ELSE answer(switch_state(
                                 update_state_data(c, [balance_kind |-> Val(method)]),
                                 "admin_adjust_balance_delta"),
                             "delta_prompt")
        ELSE delete_state(answer(c, user_service_lookup("ensure_admin")))

\* admin.py 221-243: admin_delete_deal on the conversation c.  Line 235
\* raises as line 210 does; soft_delete_deal in line 236 is not reached.
admin_delete_deal(c, sender, text) ==
    IF text \in ADMIN_MENU_COMMANDS
        THEN delete_state(menu_command(c, sender, text))
    ELSE IF parse_deal_id(text) = Null THEN answer(c, "deal_id_not_number")
    ELSE delete_state(answer(c, user_service_lookup("ensure_admin")))

\* main.py 187-204: the route of the three states of the balance
\* conversation.
adjust_balance_route(sender, text) ==
    /\ chat.conv[sender].state \in
           {"admin_adjust_balance_worker_phone", "admin_adjust_balance_kind",
            "admin_adjust_balance_delta"}
    /\ Handled("adjust_balance", sender,
               IF ~is_authorized_admin(sender)
               THEN answer(Work(sender), "not_enough_rights")
               ELSE admin_adjust_balance(Work(sender), sender, text), "")
    /\ UNCHANGED <<users, shifts, deals, txs, clock, last, pre, sess>>

\* main.py 207-216: the route of the state of the delete conversation.
delete_deal_route(sender, text) ==
    /\ chat.conv[sender].state = "admin_delete_deal_id"
    /\ Handled("delete_deal", sender,
               IF ~is_authorized_admin(sender)
               THEN answer(Work(sender), "not_enough_rights")
               ELSE admin_delete_deal(Work(sender), sender, text), "")
    /\ UNCHANGED <<users, shifts, deals, txs, clock, last, pre, sess>>

\* main.py 151-302: the states a route of text messages is registered for.
ROUTED_STATES ==
    ADMIN_STATES \cup
    {"shift:opening_cash", "shift:opening_bank", "shift:closing_cash",
     "shift:closing_bank", "deal:amount", "deal:payment_method",
     "installment:price", "installment:percent", "installment:term",
     "installment:payment_method", "deal:details"}

\* main.py 275-293: installment_handler, the route of four states.
installment_handler(sender, text) ==
    /\ chat.conv[sender].state \in
           {"installment:price", "installment:percent", "installment:term",
            "installment:payment_method"}
    /\ installment_steps(sender, text)

\* main.py 305-317: base_menu_handler, registered last with state=None for
\* the text messages no route above has taken.  The router is a library
\* outside the repository: for a sender that has a state, state=None
\* either lets the handler run or does not, and then no handler runs and
\* nothing changes.
base_menu_handler(sender, text) ==
    /\ chat.conv[sender].state \notin ROUTED_STATES
    /\ handle_menu_command(sender, text)

(***************************************************************************)
(* Service calls one after the other.                                      *)
(***************************************************************************)
IdleSess == [p \in Procs |-> [pc |-> "idle", worker |-> 0, cash |-> 0, bank |-> 0]]

Init ==
    /\ users = InitUsers
    /\ shifts = <<>>
    /\ deals = <<>>
    /\ txs = <<>>
    /\ clock = 1
    /\ last = NoCall
    /\ pre = [users |-> InitUsers, shifts |-> <<>>, deals |-> <<>>, txs |-> <<>>]
    /\ sess = IdleSess
    /\ chat = IdleChat

CanGrow == Len(txs) < MaxTxs
CanOpen == Len(shifts) < MaxShifts

\* The calls of one worker (user 1) and of every user acting as admin.
Next ==
    \/ /\ UNCHANGED chat
       /\ \E cash \in Amounts, bank \in Amounts :
          /\ open_shift_error(1, cash, bank) = "" => CanGrow /\ CanOpen
          /\ open_shift(1, cash, bank)
    \/ /\ UNCHANGED chat
       /\ \E amount \in Amounts, method \in Methods :
          /\ create_deal_error(1, amount, method) = "" => CanGrow
          /\ create_deal(1, amount, method, "operation")
    \/ /\ UNCHANGED chat
       /\ \E admin \in {1, 3}, phone \in Phones, delta \in Amounts, method \in Methods :
          /\ adjust_worker_balance_error(admin, phone) = "" => CanGrow
          /\ adjust_worker_balance(admin, phone, delta, method)
    \/ /\ UNCHANGED chat
       /\ \E rc \in Reported, rb \in Reported :
          close_shift(1, rc, rb)
    \/ /\ UNCHANGED chat
       /\ close_open_shifts

Spec == Init /\ [][Next]_vars

\* The calls of both workers; shifts are closed without a report.
NextWorkers ==
    \/ /\ UNCHANGED chat
       /\ \E w \in WorkerIds, cash \in Amounts, bank \in Amounts :
          /\ open_shift_error(w, cash, bank) = "" => CanGrow /\ CanOpen
          /\ open_shift(w, cash, bank)
    \/ /\ UNCHANGED chat
       /\ \E w \in WorkerIds, amount \in Amounts, method \in Methods :
          /\ create_deal_error(w, amount, method) = "" => CanGrow
          /\ create_deal(w, amount, method, "operation")
    \/ /\ UNCHANGED chat
       /\ \E phone \in Phones, delta \in Amounts, method \in Methods :
          /\ adjust_worker_balance_error(3, phone) = "" => CanGrow
          /\ adjust_worker_balance(3, phone, delta, method)
    \/ /\ UNCHANGED chat
       /\ \E w \in WorkerIds :
          close_shift(w, Null, Null)
    \/ /\ UNCHANGED chat
       /\ close_open_shifts

SpecWorkers == Init /\ [][NextWorkers]_vars

\* Deal ids a caller may name: those that can exist and one that cannot.
DealIds == 1..MaxTxs

\* The ledger of one worker with the admin's deletions and the queries of
\* both workers; shifts are closed without a report.
NextLedger ==
    \/ /\ UNCHANGED chat
       /\ \E cash \in Amounts, bank \in Amounts :
          /\ open_shift_error(1, cash, bank) = "" => CanGrow /\ CanOpen
          /\ open_shift(1, cash, bank)
    \/ /\ UNCHANGED chat
       /\ \E amount \in Amounts, method \in Methods, deal_type \in DealTypes :
          /\ create_deal_error(1, amount, method) = "" => CanGrow
          /\ create_deal(1, amount, method, deal_type)
    \/ /\ UNCHANGED chat
       /\ \E admin \in {1, 3}, delta \in Amounts, method \in Methods :
          /\ adjust_worker_balance_error(admin, 1) = "" => CanGrow
          /\ adjust_worker_balance(admin, 1, delta, method)
    \/ /\ UNCHANGED chat
       /\ close_shift(1, Null, Null)
    \/ /\ UNCHANGED chat
       /\ close_open_shifts
    \/ /\ UNCHANGED chat
       /\ \E admin \in {1, 3}, deal_id \in DealIds :
          soft_delete_deal(admin, deal_id)
    \/ /\ UNCHANGED chat
       /\ \E w \in WorkerIds :
          get_balance_breakdown("get_balance_breakdown", w)
    \/ /\ UNCHANGED chat
       /\ \E w \in WorkerIds :
          get_active_balance(w)
    \/ /\ UNCHANGED chat
       /\ \E w \in WorkerIds, limit \in Limits :
          list_worker_deals(w, limit)
    \/ /\ UNCHANGED chat
       /\ \E w \in WorkerIds, deal_id \in DealIds :
          get_worker_deal(w, deal_id)

SpecLedger == Init /\ [][NextLedger]_vars

\* The deals of both workers, the admin's deletions and the reports; a
\* shift is opened with cash and bank money in it.
NextReports ==
    \/ /\ UNCHANGED chat
       /\ \E w \in WorkerIds :
          /\ open_shift_error(w, MaxAmount, MaxAmount) = "" => CanOpen
          /\ open_shift(w, MaxAmount, MaxAmount)
    \/ /\ UNCHANGED chat
       /\ \E w \in WorkerIds, amount \in Amounts, method \in Methods,
          deal_type \in DealTypes :
          /\ create_deal_error(w, amount, method) = "" => Len(deals) < MaxDeals
          /\ create_deal(w, amount, method, deal_type)
    \/ /\ UNCHANGED chat
       /\ \E deal_id \in 1..MaxDeals :
          soft_delete_deal(3, deal_id)
    \/ /\ UNCHANGED chat
       /\ \E start \in Days, end \in Days, worker_phone \in {0} \cup Phones :
          build_deals_report(start, end, worker_phone)
    \/ /\ UNCHANGED chat
       /\ \E start \in Days, end \in Days :
          build_full_report(start, end)

SpecReports == Init /\ [][NextReports]_vars

\* The shifts of one worker, closed with and without a reconciliation or
\* by the sweep, and the reports that list the mismatches.
NextMismatch ==
    \/ /\ UNCHANGED chat
       /\ \E cash \in {0, MaxAmount} :
          /\ open_shift_error(1, cash, 0) = "" => CanOpen
          /\ open_shift(1, cash, 0)
    \/ /\ UNCHANGED chat
       /\ \E amount \in Amounts :
          /\ create_deal_error(1, amount, "cash") = "" => CanGrow
          /\ create_deal(1, amount, "cash", "operation")
    \/ /\ UNCHANGED chat
       /\ \E reported_cash \in Reported, reported_bank \in Reported :
          close_shift(1, reported_cash, reported_bank)
    \/ /\ UNCHANGED chat
       /\ close_open_shifts
    \/ /\ UNCHANGED chat
       /\ \E start \in Days, end \in Days, worker_phone \in {0, 1} :
          build_deals_report(start, end, worker_phone)
    \/ /\ UNCHANGED chat
       /\ \E start \in Days, end \in Days :
          build_full_report(start, end)
    \/ /\ UNCHANGED chat
       /\ build_today_summary

SpecMismatch == Init /\ [][NextMismatch]_vars

\* The amounts of a day at the till: what a shift is opened with, what a
\* deal or an adjustment moves, what is counted at closing.
ScenarioOpenings == {0, 100}
ScenarioAmounts == {50, 0 - 30}
ScenarioReported == {Null, Some(115)}

\* One worker's shifts with deals of either method and the admin's cash
\* adjustments, closed with or without a count of the cash.
NextScenario ==
    \/ /\ UNCHANGED chat
       /\ \E cash \in ScenarioOpenings :
          /\ open_shift_error(1, cash, 0) = "" => CanOpen
          /\ open_shift(1, cash, 0)
    \/ /\ UNCHANGED chat
       /\ \E amount \in ScenarioAmounts, method \in Methods :
          /\ create_deal_error(1, amount, method) = "" => CanGrow
          /\ create_deal(1, amount, method, "operation")
    \/ /\ UNCHANGED chat
       /\ \E delta \in ScenarioAmounts :
          /\ adjust_worker_balance_error(3, 1) = "" => CanGrow
          /\ adjust_worker_balance(3, 1, delta, "cash")
    \/ /\ UNCHANGED chat
       /\ \E reported_cash \in ScenarioReported :
          close_shift(1, reported_cash, Null)

SpecScenario == Init /\ [][NextScenario]_vars

\* The installment conversation of a worker whose shift holds the price of
\* the dearest product in cash and nothing in the bank.
NextInstallment ==
    \/ /\ UNCHANGED chat
       /\ open_shift_error(1, 1000 * Tick, 0) = "" => Len(shifts) < MaxRounds
       /\ open_shift(1, 1000 * Tick, 0)
    \/ /\ UNCHANGED chat
       /\ close_shift(1, Null, Null)
    \/ \E sender \in {1, Len(InitUsers) + 1} : installment_button(sender)
    \/ \E sender \in {1} :
          /\ chat.conv[sender].state \in INSTALLMENT_STATES
          /\ \E text \in InstallmentTexts[chat.conv[sender].state] :
                /\ Len(deals) < MaxRounds
                /\ installment_steps(sender, text)

SpecInstallment == Init /\ [][NextInstallment]_vars

(***************************************************************************)
(* The top-level text commands.  Sender 1 is an active worker, sender 2 a  *)
(* worker the admin disables and adds again, sender 3 the admin named in   *)
(* settings.admin_phones, sender 4 a phone nobody has until it is added.   *)
(* Senders 2 and 3 open a shift and start the installment conversation,    *)
(* which leaves them in a conversation state.                              *)
(***************************************************************************)
MenuTexts == {"", "hello", "help", "admin", "manager"}

NextMenu ==
    \/ /\ UNCHANGED chat
       /\ \E worker \in {2, 3} : open_shift(worker, MaxAmount, 0)
    \/ /\ UNCHANGED chat
       /\ \E phone \in {2, Len(InitUsers) + 1} :
             add_manager([number |-> phone, form |-> "digits"])
    \/ /\ UNCHANGED chat
       /\ \E phone \in {2, Len(InitUsers) + 1} :
             disable_manager([number |-> phone, form |-> "digits"])
    \/ \E sender \in {2, 3} : installment_button(sender)
    \/ \E sender \in {2, 3} :
          /\ chat.conv[sender].state = "installment:price"
          /\ installment_steps(sender, "1000")
    \/ \E sender \in Senders, text \in MenuTexts :
          handle_menu_command(sender, text)

SpecMenu == Init /\ [][NextMenu]_vars

(***************************************************************************)
(* Messages as the router of main.py hands them to the handlers.  Sender 1 *)
(* is a worker, sender 3 the admin.  Both press buttons of either menu;    *)
(* what they type afterwards goes to the route of their state.  Worker 1   *)
(* has a shift that covers the product and one operation of 200.           *)
(***************************************************************************)
RoutedButtons ==
    {"adjust_balance", "delete_deal", "today_report", "full_report", "day",
     "installment"}

\* What is typed at the steps of the admin conversations.
AdminTexts ==
    [c \in {"admin_adjust_balance_worker_phone", "admin_adjust_balance_kind",
            "admin_adjust_balance_delta", "admin_delete_deal_id"} |->
        CASE c = "admin_adjust_balance_worker_phone" -> {"1", "admin"}
          [] c = "admin_adjust_balance_kind" -> {"abc", "cash", "bank"}
          [] c = "admin_adjust_balance_delta" -> {"-5", "5"}
          [] OTHER -> {"abc", "1", "#1", "7"}]

\* Valid answers to the prompts of the installment conversation.
ValidInstallmentTexts ==
    [c \in INSTALLMENT_STATES |->
        CASE c = "installment:price" -> {"1000"}
          [] c = "installment:percent" -> {"15"}
          [] c = "installment:term" -> {"3"}
          [] c = "installment:down_payment" -> {"200"}
          [] OTHER -> {"cash"}]

NextRouted ==
    \/ /\ UNCHANGED chat
       /\ open_shift_error(1, 1000 * Tick, 0) = "" => Len(shifts) < 1
       /\ open_shift(1, 1000 * Tick, 0)
    \/ /\ UNCHANGED chat
       /\ create_deal_error(1, 0 - 200 * Tick, "cash") = "" => Len(deals) < 1
       /\ create_deal(1, 0 - 200 * Tick, "cash", "operation")
    \/ \E sender \in {1, 3}, txt \in RoutedButtons : buttons_handler(sender, txt)
    \/ \E sender \in {1, 3} :
          /\ chat.conv[sender].state \in DOMAIN AdminTexts
          /\ \E text \in AdminTexts[chat.conv[sender].state] :
                adjust_balance_route(sender, text)
    \/ \E sender \in {1, 3} :
          /\ chat.conv[sender].state \in DOMAIN AdminTexts
          /\ \E text \in AdminTexts[chat.conv[sender].state] :
                delete_deal_route(sender, text)
    \/ \E sender \in {1} :
          /\ chat.conv[sender].state \in INSTALLMENT_STATES
          /\ \E text \in ValidInstallmentTexts[chat.conv[sender].state] :
                /\ Len(deals) < MaxRounds
                /\ installment_handler(sender, text)
    \/ \E sender \in {1, 3} :
          \E text \in {"200", "manager"} \cup
                      (IF chat.conv[sender].state \in INSTALLMENT_STATES
                       THEN ValidInstallmentTexts[chat.conv[sender].state]
                       ELSE {}) :
                base_menu_handler(sender, text)

SpecRouted == Init /\ [][NextRouted]_vars

(***************************************************************************)
(* Amounts that are not whole cents.  _as_decimal takes any number of      *)
(* decimals (the handlers do too), the Numeric(12, 2) columns keep two.    *)
(* Amounts are in ticks: 40 is 0.004, 50 is 0.005, Tick is 1.00.           *)
(***************************************************************************)
NumericOpenings == {0, 40, Tick}
NumericAmounts == {0 - 50, 40, 0 - Tick, Tick}

NextNumeric ==
    \/ /\ UNCHANGED chat
       /\ \E cash \in NumericOpenings, bank \in NumericOpenings :
             /\ open_shift_error(1, cash, bank) = "" => Len(shifts) < MaxRounds
             /\ open_shift_numeric(1, cash, bank)
    \/ /\ UNCHANGED chat
       /\ \E amount \in NumericAmounts, method \in Methods :
             /\ create_deal_error(1, amount, method) = "" => Len(deals) < MaxDeals
             /\ create_deal_numeric(1, amount, method)
    \/ /\ UNCHANGED chat
       /\ close_shift(1, Null, Null)
    \/ /\ UNCHANGED chat
       /\ build_full_report(0, MaxDay)

SpecNumeric == Init /\ [][NextNumeric]_vars

(***************************************************************************)
(* The admin's calls on the users table: phones 2 (a worker), 3 (the       *)
(* admin) and 4 (nobody yet), typed in every spelling, while workers 2 and *)
(* 3 open and close shifts.                                                *)
(***************************************************************************)
RawPhones ==
    [number : {2, 3, Len(InitUsers) + 1}, form : {"c.us", "digits", "eight"}]
        \cup {[number |-> 0, form |-> "empty"], [number |-> 2, form |-> "short"]}

NextUsers ==
    \/ /\ UNCHANGED chat
       /\ \E worker \in {2, 3} :
             /\ open_shift_error(worker, MaxAmount, 0) = "" => CanOpen
             /\ open_shift(worker, MaxAmount, 0)
    \/ /\ UNCHANGED chat
       /\ close_shift(2, Null, Null)
    \/ /\ UNCHANGED chat
       /\ \E raw_phone \in RawPhones : add_manager(raw_phone)
    \/ /\ UNCHANGED chat
       /\ \E raw_phone \in RawPhones : disable_manager(raw_phone)

SpecUsers == Init /\ [][NextUsers]_vars

(***************************************************************************)
(* open_shift calls that overlap.  Each call runs in its own session       *)
(* (db_session without a session argument): the query of lines 84-91 reads *)
(* the committed rows, the rows added at lines 105 and 114 are seen by     *)
(* the other sessions once db_session commits (READ COMMITTED, the default *)
(* of the PostgreSQL engine of config.py), and the shifts table has no     *)
(* constraint on open shifts that a commit could violate.                  *)
(***************************************************************************)
Pending == {p \in Procs : sess[p].pc = "insert"}

\* Lines 75-93: the checks, then the transaction is left open.
open_shift_begin(p, worker, cash, bank) ==
    LET err == open_shift_error(worker, cash, bank)
    IN  /\ sess[p].pc = "idle"
        /\ IF err # "" THEN Raise(Call("open_shift", worker, Exc(err), err, 0))
           ELSE /\ Len(shifts) + Cardinality(Pending) < MaxShifts
                /\ sess' = [sess EXCEPT ![p] = [pc |-> "insert", worker |-> worker,
                                                cash |-> cash, bank |-> bank]]
                /\ UNCHANGED <<users, shifts, deals, txs, clock, last, pre>>

\* Lines 95-116 and the commit of db_session.
open_shift_commit(p) ==
    /\ sess[p].pc = "insert"
    /\ open_shift_insert(sess[p].worker, sess[p].cash, sess[p].bank)
    /\ sess' = [sess EXCEPT ![p] = IdleSess[p]]

NextConc ==
    \/ /\ UNCHANGED chat
       /\ \E p \in Procs, w \in WorkerIds, cash \in Amounts, bank \in Amounts :
          open_shift_begin(p, w, cash, bank)
    \/ /\ UNCHANGED chat
       /\ \E p \in Procs : open_shift_commit(p)
    \/ /\ UNCHANGED chat
       /\ \E w \in WorkerIds : close_shift(w, Null, Null)

SpecConc == Init /\ [][NextConc]_vars

(***************************************************************************)
(* create_deal, adjust_balance and close_shift calls that overlap, each in *)
(* its own session.  A session reads the committed rows; what it flushes   *)
(* is seen by the others when db_session commits (READ COMMITTED).  The    *)
(* flush writes the columns whose value in memory differs from the value   *)
(* that was loaded, as UPDATE shifts SET column = value WHERE id = ...,    *)
(* whatever the row holds by then.  create_deal reads and writes in one    *)
(* transaction; adjust_balance and close_shift look the open shift up in a *)
(* first transaction (get_active_shift) and load it again by id in a       *)
(* second one.                                                             *)
(***************************************************************************)
\* What a session has loaded of a Shift row.
loaded(shift_id) ==
    [cash |-> shifts[shift_id].current_balance_cash,
     bank |-> shifts[shift_id].current_balance_bank,
     total |-> shifts[shift_id].current_balance]

\* deals.py 120-124, shifts.py 165-169: the balances are computed from the
\* loaded values; the flush writes those that changed.
flush_balance(shift, read, method, amount) ==
    LET cash == IF method = "bank" THEN read.cash ELSE read.cash + amount
        bank == IF method = "bank" THEN read.bank + amount ELSE read.bank
    IN  [shift EXCEPT
            !.current_balance_cash = IF cash = read.cash THEN @ ELSE cash,
            !.current_balance_bank = IF bank = read.bank THEN @ ELSE bank,
            !.current_balance = IF cash + bank = read.total THEN @
                                ELSE cash + bank]

Writing == {p \in Procs : sess[p].pc \in {"deal", "adjust_found", "adjust"}}

\* deals.py 75-98: the checks and the query of the open shift.
create_deal_read(p, worker, amount, method) ==
    LET err == create_deal_error(worker, amount, method)
    IN  /\ sess[p].pc = "idle"
        /\ IF err # "" THEN Raise(Call("create_deal", worker, Exc(err), err, 0))
           ELSE /\ Len(txs) + Cardinality(Writing) < MaxTxs
                /\ sess' = [sess EXCEPT ![p] =
                               [pc |-> "deal", worker |-> worker,
                                shift_id |-> create_deal_shift(worker),
                                read |-> loaded(create_deal_shift(worker)),
                                amount |-> amount, method |-> method]]
                /\ UNCHANGED <<users, shifts, deals, txs, clock, last, pre>>

\* deals.py 100-135 and the commit of db_session.
create_deal_flush(p) ==
    LET s == sess[p]
    IN  /\ s.pc = "deal"
        /\ deals' = Append(deals, NewDeal(s.worker, s.shift_id, s.amount,
                                          s.method, "operation"))
        /\ shifts' = [shifts EXCEPT ![s.shift_id] =
                         flush_balance(@, s.read, s.method, s.amount)]
        /\ txs' = Append(txs, NewTx(s.worker, s.shift_id, Some(Len(deals) + 1),
                                    "DEAL_ISSUED", s.amount, Null))
        /\ last' = Returned("create_deal", s.worker, Len(deals) + 1,
                             Args(Some(s.amount), Null, s.method, 0))
        /\ pre' = db
        /\ clock' = clock + 1
        /\ sess' = [sess EXCEPT ![p] = IdleSess[p]]
        /\ UNCHANGED users

\* shifts.py 156-158: get_active_shift in a transaction of its own.
adjust_balance_lookup(p, worker, delta, method) ==
    LET err == adjust_balance_error(worker)
    IN  /\ sess[p].pc = "idle"
        /\ IF err # ""
           THEN Raise(Call("adjust_balance", worker, Exc(err), err, 0))
           ELSE /\ Len(txs) + Cardinality(Writing) < MaxTxs
                /\ sess' = [sess EXCEPT ![p] =
                               [pc |-> "adjust_found", worker |-> worker,
                                shift_id |-> get_active_shift(worker),
                                amount |-> delta, method |-> method]]
                /\ UNCHANGED <<users, shifts, deals, txs, clock, last, pre>>

\* shifts.py 162-163: local.get(Shift, shift.id) in the second transaction.
adjust_balance_get(p) ==
    /\ sess[p].pc = "adjust_found"
    /\ sess' = [sess EXCEPT ![p] =
                   [pc |-> "adjust", worker |-> sess[p].worker,
                    shift_id |-> sess[p].shift_id,
                    read |-> loaded(sess[p].shift_id),
                    amount |-> sess[p].amount, method |-> sess[p].method]]
    /\ UNCHANGED <<users, shifts, deals, txs, clock, last, pre>>

\* shifts.py 164-178 and the commit of db_session.
adjust_balance_flush(p) ==
    LET s == sess[p]
    IN  /\ s.pc = "adjust"
        /\ shifts' = [shifts EXCEPT ![s.shift_id] =
                         flush_balance(@, s.read, s.method, s.amount)]
        /\ txs' = Append(txs, NewTx(s.worker, s.shift_id, Null, "ADJUSTMENT",
                                    s.amount, Null))
        /\ last' = Returned("adjust_balance", s.worker, s.shift_id,
                             Args(Some(s.amount), Null, s.method, 0))
        /\ pre' = db
        /\ sess' = [sess EXCEPT ![p] = IdleSess[p]]
        /\ UNCHANGED <<users, deals, clock>>

\* shifts.py 204-207: get_active_shift in a transaction of its own, then
\* the time of closing is taken.
close_shift_lookup(p, worker) ==
    LET err == close_shift_error(worker)
    IN  /\ sess[p].pc = "idle"
        /\ IF err # "" THEN Raise(Call("close_shift", worker, Exc(err), err, 0))
           ELSE /\ sess' = [sess EXCEPT ![p] =
                               [pc |-> "close_found", worker |-> worker,
                                shift_id |-> get_active_shift(worker),
                                now |-> clock]]
                /\ clock' = clock + 1
                /\ UNCHANGED <<users, shifts, deals, txs, last, pre>>

\* shifts.py 208-222 for a closing without reported amounts: the second
\* transaction writes status and closed_at.
close_shift_flush(p) ==
    LET s == sess[p]
    IN  /\ s.pc = "close_found"
        /\ shifts' = [shifts EXCEPT ![s.shift_id] =
                         closed_row(@, Null, Null, s.now)]
        /\ last' = Returned("close_shift", s.worker, s.shift_id,
                             Args(Null, Null, "", 0))
        /\ pre' = db
        /\ sess' = [sess EXCEPT ![p] = IdleSess[p]]
        /\ UNCHANGED <<users, deals, txs, clock>>

\* Worker 1 opens a shift with one unit in the cash box and one in the
\* bank; then the calls on that shift overlap.
OverlapAmounts == {0 - 1, 1}

NextOverlap ==
    \/ /\ UNCHANGED chat
       /\ open_shift_error(1, 1, 1) = "" => Len(shifts) < 1 /\ Writing = {}
       /\ open_shift(1, 1, 1)
    \/ /\ UNCHANGED chat
       /\ \E p \in Procs, amount \in OverlapAmounts, method \in Methods :
             create_deal_read(p, 1, amount, method)
    \/ /\ UNCHANGED chat
       /\ \E p \in Procs : create_deal_flush(p)
    \/ /\ UNCHANGED chat
       /\ \E p \in Procs, delta \in OverlapAmounts, method \in Methods :
             adjust_balance_lookup(p, 1, delta, method)
    \/ /\ UNCHANGED chat
       /\ \E p \in Procs : adjust_balance_get(p)
    \/ /\ UNCHANGED chat
       /\ \E p \in Procs : adjust_balance_flush(p)
    \/ /\ UNCHANGED chat
       /\ \E p \in Procs : close_shift_lookup(p, 1)
    \/ /\ UNCHANGED chat
       /\ \E p \in Procs : close_shift_flush(p)
    \/ /\ UNCHANGED chat
       /\ close_open_shifts

SpecOverlap == Init /\ [][NextOverlap]_vars

(***************************************************************************)
(* Properties.  pre and last relate the tables before and after the last   *)
(* call; a property on the arguments of a call that raised is stated on    *)
(* the step itself.                                                        *)
(***************************************************************************)
PreOpenShiftIds(worker_id) ==
    {i \in DOMAIN pre.shifts :
        pre.shifts[i].worker_id = worker_id /\ pre.shifts[i].status = "open"}

ClosedShiftIds(worker_id) ==
    {i \in DOMAIN shifts :
        shifts[i].worker_id = worker_id /\ shifts[i].status = "closed"}

Balance(shift, method) ==
    IF method = "cash" THEN shift.current_balance_cash
    ELSE shift.current_balance_bank

Other(method) == IF method = "cash" THEN "bank" ELSE "cash"

TablesUnchanged == UNCHANGED <<users, shifts, deals, txs>>

\* C1: whatever sequence of open_shift, create_deal, adjust_balance,
\* close_shift and close_open_shifts calls has run, every worker has at most
\* one shift with status open.
C1_SingleOpenShift ==
    \A w \in UserIds : Cardinality(OpenShiftIds(w)) <= 1

\* Both workers hold an open shift and a further open_shift of one of them
\* has just been refused.
C1_Witness ==
    /\ last.op = "open_shift"
    /\ last.msg = "already_open"
    /\ \A w \in WorkerIds : Cardinality(OpenShiftIds(w)) = 1

\* C2: two open_shift calls for the same worker whose transactions overlap
\* cannot both succeed, so no worker ends up with two open shifts.
C2_OverlappingOpensExclusive ==
    ~ \E i \in DOMAIN shifts, j \in DOMAIN shifts :
        /\ i < j
        /\ shifts[i].worker_id = shifts[j].worker_id
        /\ shifts[i].status = "open"
        /\ shifts[j].status = "open"

\* C3: for a worker with an open shift and a non-zero amount, create_deal
\* succeeds exactly when the amount is a credit, or a debit that the balance
\* of the chosen method covers; a refusal is a ValidationError; the balance of
\* the other method plays no role.
C3_DealAcceptedIffCovered ==
    [][\A amount \in Amounts, method \in Methods :
        (/\ create_deal(1, amount, method, "operation")
         /\ amount # 0
         /\ OpenShiftIds(1) # {})
        => LET shift == shifts[CHOOSE i \in OpenShiftIds(1) : TRUE]
           IN  /\ last'.exc \in {"OK", "ValidationError"}
               /\ last'.exc = "OK" <=>
                     \/ amount > 0
                     \/ amount < 0 /\ Balance(shift, method) + amount >= 0]_vars

\* A debit has been refused although the other method's balance, and so the
\* combined balance, would have covered any debit of the model.
C3_Witness ==
    /\ last.op = "create_deal"
    /\ last.msg = "insufficient_limit"
    /\ \E i \in OpenShiftIds(1) :
          /\ shifts[i].current_balance_cash = 0
          /\ shifts[i].current_balance_bank >= MaxAmount

C5_FailedDealChangesNothing ==
    [][\A amount \in Amounts, method \in Methods :
        create_deal(1, amount, method, "operation")
        => /\ amount = 0 => last'.exc = "ValidationError"
           /\ (amount # 0 /\ OpenShiftIds(1) = {}) => last'.exc = "NoActiveShift"
           /\ (/\ amount < 0
               /\ \E i \in OpenShiftIds(1) : Balance(shifts[i], method) + amount < 0)
              => last'.exc = "ValidationError"
           /\ last'.exc # "OK" => TablesUnchanged]_vars

\* A zero amount has been refused for a worker without an open shift.
C5_Witness ==
    /\ last.op = "create_deal"
    /\ last.exc = "ValidationError"
    /\ last.msg = "amount_zero"
    /\ OpenShiftIds(last.worker) = {}
    /\ ClosedShiftIds(last.worker) # {}
    /\ Len(deals) > 0

\* C6 as stated: every shift's cash and bank balance is >= 0 in every
\* reachable state; no deal and no adjustment drives a balance negative.
C6_BalancesNeverNegative ==
    \A i \in DOMAIN shifts :
        /\ shifts[i].current_balance_cash >= 0
        /\ shifts[i].current_balance_bank >= 0

\* C6 amended: a shift opens with balances >= 0, no successful create_deal
\* takes a balance below 0 (a balance that is negative after a deal was
\* negative before it and the deal did not lower it), and a shift with a
\* negative balance has an ADJUSTMENT with a negative delta in its ledger.
C6_OnlyAdjustmentsGoNegative ==
    /\ \A i \in DOMAIN shifts :
          (shifts[i].current_balance_cash < 0 \/ shifts[i].current_balance_bank < 0)
          => \E t \in DOMAIN txs :
                /\ txs[t].shift_id = i
                /\ txs[t].type = "ADJUSTMENT"
                /\ txs[t].amount_delta < 0
    /\ (last.op = "create_deal" /\ last.exc = "OK") =>
          \A i \in DOMAIN shifts, m \in Methods :
              Balance(shifts[i], m) < 0
              => Balance(pre.shifts[i], m) <= Balance(shifts[i], m)
    /\ (last.op = "open_shift" /\ last.exc = "OK") =>
          /\ shifts[last.ret].current_balance_cash >= 0
          /\ shifts[last.ret].current_balance_bank >= 0

\* A debit has gone through and taken its method's balance to exactly 0 on a
\* shift whose other balance an adjustment had made negative.
C6_Witness ==
    /\ last.op = "create_deal"
    /\ last.exc = "OK"
    /\ Val(last.args.x) < 0
    /\ \E i \in OpenShiftIds(last.worker) :
          /\ Balance(shifts[i], last.args.method) = 0
          /\ Balance(shifts[i], Other(last.args.method)) < 0

C8_ClosedIsTerminal ==
    /\ \A i \in DOMAIN pre.shifts :
          pre.shifts[i].status = "closed" =>
              /\ i \in DOMAIN shifts
              /\ shifts[i] = pre.shifts[i]
    /\ (last.op = "close_shift" /\ PreOpenShiftIds(last.worker) = {}) =>
          /\ last.exc = "NoActiveShift"
          /\ db = pre

\* close_shift has been refused for a worker whose only shift is closed and
\* carries a reconciliation.
C8_Witness ==
    /\ last.op = "close_shift"
    /\ last.exc = "NoActiveShift"
    /\ Len(shifts) = 1
    /\ shifts[1].worker_id = last.worker
    /\ shifts[1].status = "closed"
    /\ shifts[1].reported_at # Null
    /\ shifts[1].cash_diff # Some(0)

\* C9: a deal is attached to the shift that is open for its worker when it is
\* created, never to a closed one, and while a worker has no open shift every
\* create_deal of that worker with a non-zero amount fails with NoActiveShift.
C9_DealsOnlyOnOpenShift ==
    [][\A w \in WorkerIds, amount \in Amounts, method \in Methods :
        create_deal(w, amount, method, "operation")
        => /\ last'.exc = "OK" =>
                 /\ Len(deals') = Len(deals) + 1
                 /\ deals'[Len(deals')].shift_id \in OpenShiftIds(w)
                 /\ deals'[Len(deals')].worker_id = w
           /\ (amount # 0 /\ OpenShiftIds(w) = {}) =>
                 /\ last'.exc = "NoActiveShift"
                 /\ TablesUnchanged]_vars

\* create_deal has been refused with NoActiveShift for a worker whose shift,
\* which holds a deal, is closed, while the other worker's shift is open.
C9_Witness ==
    /\ last.op = "create_deal"
    /\ last.exc = "NoActiveShift"
    /\ ClosedShiftIds(last.worker) # {}
    /\ \E d \in DOMAIN deals : deals[d].shift_id \in ClosedShiftIds(last.worker)
    /\ \E w \in WorkerIds : w # last.worker /\ OpenShiftIds(w) # {}

\* C10: open_shift fails with ValidationError and adds neither a Shift nor a
\* CashTransaction when an opening amount is negative, when both are zero, or
\* when the worker has an open shift; the amounts are checked first.
C10_OpenShiftRefusals ==
    [][\A cash \in Amounts, bank \in Amounts :
        open_shift(1, cash, bank)
        => /\ (cash < 0 \/ bank < 0) =>
                 last'.exc = "ValidationError" /\ last'.msg = "amounts_negative"
           /\ (cash = 0 /\ bank = 0) =>
                 last'.exc = "ValidationError" /\ last'.msg = "amounts_zero"
           /\ (/\ cash >= 0 /\ bank >= 0 /\ cash + bank > 0
               /\ OpenShiftIds(1) # {}) =>
                 last'.exc = "ValidationError" /\ last'.msg = "already_open"
           /\ last'.exc # "OK" => TablesUnchanged]_vars

\* An open_shift with a negative amount has been refused, for its amounts,
\* while the worker has an open shift.
C10_Witness ==
    /\ last.op = "open_shift"
    /\ last.exc = "ValidationError"
    /\ last.msg = "amounts_negative"
    /\ OpenShiftIds(last.worker) # {}

C13_NoActiveShiftRaised ==
    (/\ last.op \in {"adjust_worker_balance", "close_shift",
                     "get_balance_breakdown", "get_active_balance"}
     /\ last.worker \in UserIds
     /\ PreOpenShiftIds(last.worker) = {}) =>
        /\ last.exc = "NoActiveShift"
        /\ shifts = pre.shifts
        /\ txs = pre.txs
        /\ deals = pre.deals

\* get_active_balance has been refused for a worker whose last shift, which
\* holds a deal, is closed.
C13_Witness ==
    /\ last.op = "get_active_balance"
    /\ last.exc = "NoActiveShift"
    /\ ClosedShiftIds(last.worker) # {}
    /\ OpenShiftIds(last.worker) = {}
    /\ Len(deals) > 0

\* The DEAL_ISSUED ledger rows that point at a deal.
IssuedTxIds(deal_id) ==
    {t \in DOMAIN txs :
        txs[t].type = "DEAL_ISSUED" /\ txs[t].deal_id = Some(deal_id)}

\* C14: in every committed state each Deal has exactly one DEAL_ISSUED
\* CashTransaction, with the deal's shift_id, deal_id pointing at it and
\* amount_delta = total_amount, and each DEAL_ISSUED CashTransaction points at
\* an existing Deal; a create_deal that fails leaves neither a Deal nor a
\* CashTransaction behind.
C14_DealLedgerOneToOne ==
    /\ \A d \in DOMAIN deals :
          /\ Cardinality(IssuedTxIds(d)) = 1
          /\ \A t \in IssuedTxIds(d) :
                /\ txs[t].shift_id = deals[d].shift_id
                /\ txs[t].amount_delta = deals[d].total_amount
                /\ txs[t].worker_id = deals[d].worker_id
    /\ \A t \in DOMAIN txs :
          txs[t].type = "DEAL_ISSUED" =>
              /\ txs[t].deal_id # Null
              /\ Val(txs[t].deal_id) \in DOMAIN deals
    /\ (last.op = "create_deal" /\ last.exc # "OK") =>
          /\ deals = pre.deals
          /\ txs = pre.txs

\* Two deals are in the ledger, one of them soft-deleted, and a further
\* create_deal has just failed.
C14_Witness ==
    /\ last.op = "create_deal"
    /\ last.exc # "OK"
    /\ Len(deals) = 2
    /\ deals[1].is_deleted
    /\ deals[1].total_amount # deals[2].total_amount

\* C15: the CashTransaction ledger is append-only: no step of open_shift,
\* create_deal, adjust_balance, close_shift, close_open_shifts or
\* soft_delete_deal removes a ledger row or changes one that exists.
C15_LedgerAppendOnly ==
    [][/\ Len(txs') >= Len(txs)
       /\ \A t \in DOMAIN txs : txs'[t] = txs[t]]_vars

\* A deal has been soft-deleted with the ledger holding the opening and two
\* deal rows.
C15_Witness ==
    /\ last.op = "soft_delete_deal"
    /\ last.exc = "OK"
    /\ Len(txs) = MaxTxs
    /\ Len(deals) = 2

\* C16: once a Deal exists, no step changes its worker_id, shift_id,
\* total_amount, payment_method, deal_type or created_at, and no Deal is
\* removed; is_deleted is the only field that changes, and only in a
\* soft_delete_deal of that deal.
C16_DealImmutable ==
    [][\A d \in DOMAIN deals :
          /\ d \in DOMAIN deals'
          /\ [deals'[d] EXCEPT !.is_deleted = FALSE] =
                 [deals[d] EXCEPT !.is_deleted = FALSE]
          /\ deals'[d].is_deleted # deals[d].is_deleted =>
                 /\ last'.op = "soft_delete_deal"
                 /\ last'.ret = d
                 /\ deals'[d].is_deleted]_vars

\* An installment deal with a negative amount has been soft-deleted while its
\* shift is open, after a second deal was created.
C16_Witness ==
    /\ last.op = "soft_delete_deal"
    /\ last.exc = "OK"
    /\ last.ret = 1
    /\ Len(deals) = 2
    /\ deals[1].deal_type = "installment"
    /\ deals[1].total_amount < 0
    /\ shifts[deals[1].shift_id].status = "open"

\* C17: soft_delete_deal by an admin sets the deal's is_deleted to true and
\* changes nothing else: every shift (its balances included), every
\* CashTransaction and every other Deal is as before, whether the deal's
\* shift is open or closed.
C17_SoftDeleteOnlyFlag ==
    (last.op = "soft_delete_deal" /\ last.exc = "OK") =>
        /\ last.ret \in DOMAIN pre.deals
        /\ users[last.args.by].role = "admin"
        /\ deals = [pre.deals EXCEPT ![last.ret].is_deleted = TRUE]
        /\ shifts = pre.shifts
        /\ txs = pre.txs
        /\ users = pre.users

\* A deal that moved the cash balance has been soft-deleted after its shift
\* was closed.
C17_Witness ==
    /\ last.op = "soft_delete_deal"
    /\ last.exc = "OK"
    /\ ~pre.deals[last.ret].is_deleted
    /\ deals[last.ret].total_amount # 0
    /\ shifts[deals[last.ret].shift_id].status = "closed"
    /\ shifts[deals[last.ret].shift_id].current_balance_cash #
           shifts[deals[last.ret].shift_id].opening_balance_cash

\* The aggregates B without the contribution of one deal.
AggregateWithout(B, deal) ==
    LET a == deal.total_amount
        issued == a > 0
        returned == a < 0
        cash == deal.payment_method = "cash"
        bank == deal.payment_method = "bank"
    IN  [total_count |-> B.total_count - 1,
         net_sum |-> B.net_sum - a,
         issued_sum |-> B.issued_sum - (IF issued THEN a ELSE 0),
         issued_count |-> B.issued_count - (IF issued THEN 1 ELSE 0),
         return_sum |-> B.return_sum - (IF returned THEN 0 - a ELSE 0),
         return_count |-> B.return_count - (IF returned THEN 1 ELSE 0),
         cash_sum |-> B.cash_sum - (IF cash THEN a ELSE 0),
         cash_count |-> B.cash_count - (IF cash THEN 1 ELSE 0),
         bank_sum |-> B.bank_sum - (IF bank THEN a ELSE 0),
         bank_count |-> B.bank_count - (IF bank THEN 1 ELSE 0)]

\* What a group's row becomes when a deal is taken out of the group rows R:
\* the row without the deal, or no row when the deal was the group's last.
RowsWithout(R, key, deal) ==
    IF R[key].total_count = 1
    THEN [k \in DOMAIN R \ {key} |-> R[k]]
    ELSE [R EXCEPT ![key] = AggregateWithout(@, deal)]

\* C18: the aggregates of build_deals_report and build_full_report count
\* non-deleted deals only: for every period, total_count is the number of
\* non-deleted deals created in it, and the soft-deletion of a deal created in
\* the period lowers total_count by one and takes the deal's amount out of
\* every sum it was part of, in the summary, in the aggregates of its deal
\* type and in the row of its worker, and changes no other aggregate.
C18_DeletedDealsNotReported ==
    /\ \A start \in Days, end \in Days :
          deals_report_summary(deals, start, end, 0).total_count =
              Cardinality({d \in DOMAIN deals :
                              /\ ~deals[d].is_deleted
                              /\ deals[d].created_at \in
                                     start_dt(start)..end_dt(end)})
    /\ (/\ last.op = "soft_delete_deal"
        /\ last.exc = "OK"
        /\ ~pre.deals[last.ret].is_deleted) =>
          \A start \in Days, end \in Days :
              LET deal == pre.deals[last.ret]
                  w == deal.worker_id
                  other == IF deal.deal_type = "operation" THEN "installment"
                           ELSE "operation"
                  before == collect_full_report_data(pre.deals, start, end)
                  after == collect_full_report_data(deals, start, end)
                  typed(data, type) == IF type = "operation" THEN data.operations
                                       ELSE data.installments
              IN  IF deal.created_at \in start_dt(start)..end_dt(end)
                  THEN /\ after.summary = AggregateWithout(before.summary, deal)
                       /\ typed(after, deal.deal_type) =
                              AggregateWithout(typed(before, deal.deal_type), deal)
                       /\ typed(after, other) = typed(before, other)
                       /\ after.details =
                              RowsWithout(before.details, <<w, deal.deal_type>>, deal)
                       /\ deals_report_summary(deals, start, end, 0) =
                              AggregateWithout(
                                  deals_report_summary(pre.deals, start, end, 0), deal)
                       /\ deals_report_summary(deals, start, end, w) =
                              AggregateWithout(
                                  deals_report_summary(pre.deals, start, end, w), deal)
                       /\ deals_report_detail_rows(deals, start, end) =
                              RowsWithout(
                                  deals_report_detail_rows(pre.deals, start, end),
                                  w, deal)
                  ELSE /\ after = before
                       /\ deals_report_detail_rows(deals, start, end) =
                              deals_report_detail_rows(pre.deals, start, end)

\* A deal has been soft-deleted while the other worker has a deal of the same
\* type in the reports.
C18_Witness ==
    /\ last.op = "soft_delete_deal"
    /\ last.exc = "OK"
    /\ ~pre.deals[last.ret].is_deleted
    /\ Len(deals) = 2
    /\ deals[1].worker_id # deals[2].worker_id
    /\ deals[1].deal_type = deals[2].deal_type
    /\ \A d \in DOMAIN deals : d # last.ret => ~deals[d].is_deleted

\* The non-deleted deals of a worker.
LiveDealIds(worker_id) ==
    {d \in DOMAIN deals : deals[d].worker_id = worker_id /\ ~deals[d].is_deleted}

\* C19: list_worker_deals(worker, limit) returns the non-deleted deals of the
\* worker, newest first, cut to the limit: min(limit, number of such deals)
\* rows, each newer than the next and than every such deal left out;
\* get_worker_deal(worker, id) returns the deal when it is the worker's and
\* not soft-deleted, and None otherwise.  Neither changes a table.
C19_WorkerDealQueries ==
    /\ last.op = "list_worker_deals" =>
          LET rows == last.args.x
              limit == Val(last.args.y)
              E == LiveDealIds(last.worker)
              n == IF Cardinality(E) < limit THEN Cardinality(E) ELSE limit
          IN  /\ db = pre
              /\ Len(rows) = n
              /\ last.ret = n
              /\ \A i \in DOMAIN rows : rows[i] \in E
              /\ \A i \in DOMAIN rows, j \in DOMAIN rows :
                    i < j => deals[rows[i]].created_at > deals[rows[j]].created_at
              /\ \A e \in E :
                    (\A i \in DOMAIN rows : rows[i] # e) =>
                        \A i \in DOMAIN rows :
                            deals[e].created_at < deals[rows[i]].created_at
    /\ last.op = "get_worker_deal" =>
          LET id == Val(last.args.x)
          IN  /\ db = pre
              /\ last.exc = "OK"
              /\ last.ret = IF id \in LiveDealIds(last.worker) THEN id ELSE 0

\* list_worker_deals with limit 1 has returned the newer of the worker's two
\* non-deleted deals.
C19_Witness ==
    /\ last.op = "list_worker_deals"
    /\ Val(last.args.y) = 1
    /\ Cardinality(LiveDealIds(last.worker)) = 2
    /\ last.args.x = <<2>>

\* C20: soft_delete_deal by a caller who is not an admin fails with Forbidden,
\* whether or not the deal exists; by an admin for an id that no deal has it
\* fails with the ValidationError of deals; adjust_worker_balance by a caller
\* who is not an admin fails with the ValidationError of admin; none of these
\* calls changes a table.
C20_AdminOnlyMutations ==
    [][/\ \A admin \in UserIds, deal_id \in DealIds :
             (/\ users[admin].role # "admin" \/ deal_id \notin DOMAIN deals
              /\ soft_delete_deal(admin, deal_id)) =>
                 /\ last'.exc = IF users[admin].role # "admin" THEN "Forbidden"
                                ELSE "ValidationError"
                 /\ ExcModule(last'.msg) = "deals"
                 /\ TablesUnchanged
       /\ \A admin \in UserIds, delta \in Amounts, method \in Methods :
             (/\ users[admin].role # "admin"
              /\ adjust_worker_balance(admin, 1, delta, method)) =>
                 /\ last'.exc = "ValidationError"
                 /\ ExcModule(last'.msg) = "admin"
                 /\ TablesUnchanged]_vars

\* soft_delete_deal has been refused with Forbidden while two deals, neither
\* deleted, exist and the worker's shift is open.
C20_Witness ==
    /\ last.op = "soft_delete_deal"
    /\ last.exc = "Forbidden"
    /\ Len(deals) = 2
    /\ \A d \in DOMAIN deals : ~deals[d].is_deleted
    /\ OpenShiftIds(1) # {}

MismatchedShiftIds(start, end) ==
    {i \in DOMAIN shifts :
        /\ shifts[i].status = "closed"
        /\ shifts[i].reported_at # Null
        /\ Val(shifts[i].closed_at) \in start_dt(start)..end_dt(end)
        /\ \/ shifts[i].current_balance_cash # Val(shifts[i].reported_cash)
           \/ shifts[i].current_balance_bank # Val(shifts[i].reported_bank)}

MismatchSectionRight(rows, start, end) ==
    /\ {rows[k].shift : k \in DOMAIN rows} = MismatchedShiftIds(start, end)
    /\ Len(rows) = Cardinality(MismatchedShiftIds(start, end))
    /\ \A k \in DOMAIN rows :
          LET row == rows[k]
              shift == shifts[row.shift]
          IN  /\ row.cash_diff # 0 \/ row.bank_diff # 0
              /\ row.cash_actual = Val(shift.reported_cash)
              /\ row.bank_actual = Val(shift.reported_bank)
              /\ row.cash_expected = row.cash_actual + row.cash_diff
              /\ row.bank_expected = row.bank_actual + row.bank_diff
              /\ row.cash_expected = shift.current_balance_cash
              /\ row.bank_expected = shift.current_balance_bank

MovesOf(shift_id, method) ==
    LET moved(t) == /\ t.shift_id = shift_id
                    /\ \/ t.type = "ADJUSTMENT" /\ method = "cash"
                       \/ /\ t.type = "DEAL_ISSUED"
                          /\ deals[Val(t.deal_id)].payment_method = method
        rows == SelectSeq(txs, moved)
    IN  [k \in DOMAIN rows |-> rows[k].amount_delta]

RECURSIVE SumOf(_)
SumOf(amounts) ==
    IF amounts = <<>> THEN 0 ELSE Head(amounts) + SumOf(Tail(amounts))

InstallmentDealIds == {d \in DOMAIN deals : deals[d].installment # Null}
Columns(d) == Val(deals[d].installment)

\* value is one of the amounts a two-decimal column can hold that are
\* nearest to exact.
StoredAs(value, exact) ==
    /\ value % CentTicks = 0
    /\ 2 * (value - exact) <= CentTicks
    /\ 2 * (exact - value) <= CentTicks

\* The arithmetic of an installment sale told as relations between the
\* price, the whole percent, the term, the down payment and the results.
InstallmentArithmetic(price, percent, term, down, markup, total, monthly) ==
    /\ 100 * markup = price * percent
    /\ total = price + markup
    /\ monthly % Tick = 0
    /\ 2 * term * monthly - term * Tick <= 2 * (total - down)
    /\ 2 * (total - down) < 2 * term * monthly + term * Tick

OutOfRange(conv, text) ==
    /\ text \in DOMAIN DecimalTable
    /\ LET value == DecimalTable[text]
       IN  \/ conv.state = "installment:price" /\ value <= 0
           \/ conv.state = "installment:percent"
                 /\ (value < Tick \/ value > 100 * Tick)
           \/ conv.state = "installment:term" /\ value % Tick = 0
                 /\ (value < Tick \/ value > 120 * Tick)
           \/ conv.state = "installment:down_payment"
                 /\ \/ value < 0
                    \/ value - conv.data["installment_price"]
                          > (conv.data["installment_price"] \div 100)
                               * (conv.data["installment_percent"] \div Tick)

C28_FailedFinalStepClearsState ==
    [][\A text \in {"cash", "bank"} :
          (/\ chat.conv[1].state = "installment:payment_method"
           /\ create_deal_error(get_active_user_by_phone(1),
                                installment_amount(chat.conv[1].data),
                                text) # ""
           /\ installment_steps(1, text)) =>
             /\ Len(chat'.out.answers) = 1
             /\ chat'.out.exc = ""
             /\ chat'.conv[1].state = ""
      ]_vars

C40_ManagerUpsert ==
    [][\A raw_phone \in RawPhones :
          LET p == raw_phone.number
              valid == raw_phone.form \in {"c.us", "digits", "eight"}
              had == {u \in DOMAIN users : users[u].phone = p}
              has == {u \in DOMAIN users' : users'[u].phone = p}
          IN  /\ (valid /\ add_manager(raw_phone)) =>
                    /\ Cardinality(has) = 1
                    /\ \A u \in has : users'[u].is_active /\ users'[u].role = "worker"
                    /\ Len(users') = IF had = {} THEN Len(users) + 1 ELSE Len(users)
                    /\ \A u \in DOMAIN users : u \notin had => users'[u] = users[u]
                    /\ (\E u \in had : users[u].is_active /\ users[u].role = "worker")
                          => users' = users
                    /\ last'.exc = "OK"
                    /\ UNCHANGED <<shifts, deals, txs>>
              /\ (valid /\ disable_manager(raw_phone)) =>
                    /\ UNCHANGED <<shifts, deals, txs>>
                    /\ IF \E u \in had : users[u].role = "worker"
                       THEN /\ last'.exc = "OK"
                            /\ users' = [u \in DOMAIN users |->
                                            IF u \in had
                                            THEN [users[u] EXCEPT !.is_active = FALSE]
                                            ELSE users[u]]
                       ELSE /\ last'.exc = "ValidationError"
                            /\ users' = users
              /\ (~valid /\ (add_manager(raw_phone) \/ disable_manager(raw_phone))) =>
                    /\ last'.exc = "ValidationError"
                    /\ UNCHANGED <<users, shifts, deals, txs>>
      ]_vars

\* The admin's phone was added as a manager: the same row is now a worker,
\* and no row was added for it; a worker with an open shift is disabled.
C40_Witness ==
    /\ last.op = "add_manager"
    /\ last.exc = "OK"
    /\ pre.users[3].role = "admin"
    /\ users[3].role = "worker"
    /\ ~users[2].is_active
    /\ OpenShiftIds(2) # {}
    /\ Len(users) = Len(pre.users)

\* The relations between the columns of one aggregate row.
AggregateAddsUp(a) ==
    /\ a.total_count = a.issued_count + a.return_count
    /\ a.total_count = a.cash_count + a.bank_count
    /\ a.net_sum = a.issued_sum - a.return_sum
    /\ a.net_sum = a.cash_sum + a.bank_sum
    /\ a.issued_sum >= 0
    /\ a.return_sum >= 0

(***************************************************************************)
(* C39: in every aggregate a report computes (the summary of               *)
(* build_deals_report for all workers or one, its row per worker, and the  *)
(* summary, per-type and per-worker-and-type rows of the full report),     *)
(* total_count = issued_count + return_count = cash_count + bank_count,    *)
(* net_sum = issued_sum - return_sum = cash_sum + bank_sum, issued_sum and *)
(* return_sum are not negative; and in the full report the installment and *)
(* operation aggregates add up, column by column, to the summary.          *)
(***************************************************************************)
C39_AggregatesAddUp ==
    \A start \in Days, end \in Days :
       LET full == collect_full_report_data(deals, start, end)
           rows == deals_report_detail_rows(deals, start, end)
       IN  /\ \A worker \in {0} \cup UserIds :
                 AggregateAddsUp(deals_report_summary(deals, start, end, worker))
           /\ \A w \in DOMAIN rows : AggregateAddsUp(rows[w])
           /\ AggregateAddsUp(full.summary)
           /\ AggregateAddsUp(full.installments)
           /\ AggregateAddsUp(full.operations)
           /\ \A k \in DOMAIN full.details : AggregateAddsUp(full.details[k])
           /\ \A column \in DOMAIN full.summary :
                 full.summary[column] =
                    full.installments[column] + full.operations[column]

\* The amount_delta of every ledger row of a shift, in the order written.
LedgerOf(shift_id) ==
    LET rows == SelectSeq(txs, LAMBDA t : t.shift_id = shift_id)
    IN  [k \in DOMAIN rows |-> rows[k].amount_delta]

(***************************************************************************)
(* C33: ledger consistency.  In every state reached by service calls that  *)
(* ran to completion, the combined current_balance of every shift, open or *)
(* closed, is the sum of amount_delta over the ledger rows of that shift   *)
(* (OPENING, DEAL_ISSUED, ADJUSTMENT), whether or not its deals are        *)
(* soft-deleted.                                                           *)
(***************************************************************************)
C33_LedgerMatchesBalance ==
    \A s \in DOMAIN shifts : shifts[s].current_balance = SumOf(LedgerOf(s))

(***************************************************************************)
(* C34: every shift has current_balance = current_balance_cash +           *)
(* current_balance_bank and opening_balance = opening_balance_cash +       *)
(* opening_balance_bank.                                                   *)
(***************************************************************************)
C34_CombinedIsCashPlusBank ==
    \A s \in DOMAIN shifts :
       /\ shifts[s].current_balance =
             shifts[s].current_balance_cash + shifts[s].current_balance_bank
       /\ shifts[s].opening_balance =
             shifts[s].opening_balance_cash + shifts[s].opening_balance_bank

(***************************************************************************)
(* C31: when the authorized admin types the delta at the last step of the  *)
(* adjust-balance conversation (after the button, the phone of a worker    *)
(* with an open shift, and the balance kind), the delta is added to that   *)
(* balance of the worker's open shift, the admin is answered that the      *)
(* balance was adjusted, and the admin's conversation state is cleared.    *)
(***************************************************************************)
C31_AdjustConversationApplies ==
    [][\A text \in AdminTexts["admin_adjust_balance_delta"] :
          (/\ chat'.out.sender = 3
           /\ is_authorized_admin(3)
           /\ chat.conv[3].state = "admin_adjust_balance_delta"
           /\ chat.conv[3].data["worker_phone"] = "1"
           /\ get_active_shift(1) > 0
           /\ adjust_balance_route(3, text)) =>
             LET shift_id == get_active_shift(1)
                 method == chat.conv[3].data["balance_kind"]
             IN  /\ Balance(shifts'[shift_id], method)
                        = Balance(shifts[shift_id], method) + DecimalTable[text]
                 /\ chat'.out.answers = <<"balance_adjusted">>
                 /\ chat'.conv[3].state = ""
      ]_vars

(***************************************************************************)
(* C32: when the authorized admin types the id of an existing deal at the  *)
(* step of the delete-deal conversation, that deal is marked as deleted,   *)
(* the admin is answered that it was, and the admin's conversation state   *)
(* is cleared.                                                             *)
(***************************************************************************)
C32_DeleteConversationMarksDeal ==
    [][\A text \in AdminTexts["admin_delete_deal_id"] :
          (/\ chat'.out.sender = 3
           /\ is_authorized_admin(3)
           /\ chat.conv[3].state = "admin_delete_deal_id"
           /\ parse_deal_id(text) # Null
           /\ Val(parse_deal_id(text)) \in DOMAIN deals
           /\ delete_deal_route(3, text)) =>
             /\ deals'[Val(parse_deal_id(text))].is_deleted
             /\ chat'.out.answers = <<"deal_marked_deleted">>
             /\ chat'.conv[3].state = ""
      ]_vars

(***************************************************************************)
(* C38: a button reply of a sender who is not an authorized admin, with    *)
(* the text of a button of the admin menu or of the full-report menu,      *)
(* builds no report, answers none, and leaves the sender without an admin  *)
(* conversation state.                                                     *)
(***************************************************************************)
C38_ButtonsRefuseNonAdmins ==
    [][\A sender \in Senders \ AUTHORIZED_ADMIN_SENDERS,
          txt \in ADMIN_MENU_BUTTONS \cup FULL_REPORT_BUTTONS :
          (chat'.out.sender = sender /\ buttons_handler(sender, txt)) =>
             /\ last' = last
             /\ \A i \in DOMAIN chat'.out.answers :
                   chat'.out.answers[i] \notin {"today_report", "full_report"}
             /\ chat'.conv[sender].state \notin ADMIN_STATES
      ]_vars

(***************************************************************************)
(* C37: a sender is never left in a conversation state that no route of    *)
(* text messages is registered for: every state a handler sets is one of   *)
(* the routed states, so the installment conversation can go on to the     *)
(* step that creates the deal.                                             *)
(***************************************************************************)
C37_EveryStateIsRouted ==
    \A sender \in Senders :
        chat.conv[sender].state \in {""} \cup ROUTED_STATES

(***************************************************************************)
(* C35: no update is lost.  Whenever a create_deal or an adjust_balance    *)
(* that runs in a session of its own commits, the balance of its method    *)
(* and the combined balance of the shift move by the call's amount from    *)
(* what was committed before, whatever other call committed since its      *)
(* read; so two overlapping calls that both succeed leave the initial      *)
(* balance plus both amounts.                                              *)
(***************************************************************************)
C35_NoLostUpdate ==
    [][\A p \in Procs :
          (sess[p].pc \in {"deal", "adjust"} /\ sess'[p].pc = "idle") =>
             LET s == sess[p]
             IN  /\ Balance(shifts'[s.shift_id], s.method)
                        = Balance(shifts[s.shift_id], s.method) + s.amount
                 /\ shifts'[s.shift_id].current_balance
                        = shifts[s.shift_id].current_balance + s.amount
      ]_vars

(***************************************************************************)
(* C36: under every interleaving of adjust_balance, close_shift,           *)
(* close_open_shifts and create_deal, each in a session of its own, a      *)
(* shift that is committed as closed is not written again: every column    *)
(* of the row keeps its value.                                             *)
(***************************************************************************)
C36_ClosedShiftStaysAsClosed ==
    [][\A i \in DOMAIN shifts :
          shifts[i].status = "closed" => shifts'[i] = shifts[i]
      ]_vars

====
